---- MODULE Spec2Model ----
(***************************************************************************)
(* A model of the weather_service orchestration core: gap detection,       *)
(* schedule gating, capacity gating, the per-credential usage document     *)
(* the overwrite-by-range ingestion of DataProcessEngine, and the dispatch *)
(* cycle with the fetch jobs it emits.                                     *)
(*                                                                         *)
(* Times are integer seconds since an epoch that is midnight UTC of the    *)
(* first day of a month; a calendar date is the day number t \div 86400.   *)
(* A Python Optional is a sequence: <<>> for None, <<v>> for the value v.  *)
(***************************************************************************)
EXTENDS Integers, Sequences, FiniteSets, TLC

VARIABLES
    comp,       \* which component the behaviour exercises
    gIn,        \* missing_date_ranges: the call's arguments
    gOut,       \* missing_date_ranges: <<>> before the call, <<result>> after
    sIn,        \* should_run: the call's arguments (period, link status, now)
    sOut,       \* should_run: <<>> before the call, <<outcome>> after
    cIn,        \* token_has_capacity: the provider limits, the stored stats, now
    cOut,       \* token_has_capacity: <<>> before the call, <<outcome>> after
    uStats,     \* the committed ProviderTokenStat rows of the credential
    uLimits,    \* provider.config["limits"] of the credential's provider
    uTzUtc,     \* whether django.utils.timezone.utc resolves in this build
    uNow,       \* the wall clock
    uTicks,     \* how often the clock has advanced
    uNextId,    \* the primary-key sequence of ProviderTokenStat
    uWorker,    \* per worker: its place in update_provider_token_stats
    uStarted,   \* calls of update_provider_token_stats begun
    uReturned,  \* calls that returned normally
    uRaised,    \* calls that raised
    uBase,      \* usage.total stored before the first call (0 without a row)
    aCall,      \* send_request: its place in the call, or how the last call ended
    aSent,      \* HTTP requests the adapter has issued
    aPrev,      \* the usage update applied last: the meta read and the meta saved
    store,      \* the committed WeatherData rows
    iNextId,    \* the primary-key sequence of WeatherData
    iWorker,    \* per worker: the DataProcessEngine it runs and its place in it
    iJobs,      \* calls of process() begun so far
    iLog,       \* one entry per finished _save_narrow call, in commit order
    dConf,      \* the providers, credentials, points and links in the database
    dNow,       \* the wall clock of the dispatcher and of the workers
    dCycle,     \* task_auto_start_meteo_data_process: its place in the cycle
    dJobs,      \* the fetch jobs emitted by this cycle and the one before, in order
    dRun,       \* how many of the emitted jobs a worker has run
    dTicks      \* how often the dispatcher's clock has advanced

gapVars == <<gIn, gOut>>
schedVars == <<sIn, sOut>>
capVars == <<cIn, cOut>>
usageVars == <<uStats, uLimits, uTzUtc, uNow, uTicks, uNextId, uWorker, uStarted, uReturned, uRaised, uBase>>
vars == <<comp, gIn, gOut, sIn, sOut, cIn, cOut,
          uStats, uLimits, uTzUtc, uNow, uTicks, uNextId, uWorker, uStarted, uReturned, uRaised, uBase,
          aCall, aSent, aPrev,
          store, iNextId, iWorker, iJobs, iLog,
          dConf, dNow, dCycle, dJobs, dRun, dTicks>>
ingestVars == <<store, iNextId, iWorker, iJobs, iLog>>
dispVars == <<dConf, dNow, dCycle, dJobs, dRun, dTicks>>
sendVars == <<aCall, aSent, aPrev>>

(***************************************************************************)
(* Generic helpers                                                         *)
(***************************************************************************)
Min(a, b) == IF a <= b THEN a ELSE b

Range(s) == {s[i] : i \in DOMAIN s}

Idle == [k |-> "idle"]

\* The value of the variables of a component the behaviour does not exercise
GapIdle == gIn = Idle /\ gOut = <<>>
SchedIdle == sIn = Idle /\ sOut = <<>>
CapIdle == cIn = Idle /\ cOut = <<>>
UsageIdle ==
    /\ uStats = {} /\ uLimits = <<>> /\ uTzUtc = TRUE /\ uNow = 0 /\ uTicks = 0
    /\ uNextId = 1 /\ uWorker = <<>> /\ uStarted = 0 /\ uReturned = 0 /\ uRaised = 0 /\ uBase = 0
IngestIdle == store = {} /\ iNextId = 1 /\ iWorker = <<>> /\ iJobs = 0 /\ iLog = <<>>
DispIdle == dConf = Idle /\ dNow = 0 /\ dCycle = Idle /\ dJobs = <<>> /\ dRun = 0 /\ dTicks = 0
SendIdle == aCall = Idle /\ aSent = 0 /\ aPrev = <<>>

\* timedelta arithmetic: the units of a duration in seconds
SecondsPerHour == 60 * 60
SecondsPerMinute == SecondsPerHour \div 60
SecondsPerDay == 24 * SecondsPerHour

\* datetime.date(): the calendar date of a timestamp
DateOf(t) == t \div SecondsPerDay

(***************************************************************************)
(* missing_date_ranges (celery_app/lib/utils.py)                           *)
(***************************************************************************)
\* Bounds of the inputs drawn for missing_date_ranges
MaxGapDay == 6
MaxGapSpan == 3

\* The default of max_days_in_range, which the history task passes as well
DefaultMaxDays == 30

\* Times of day used for the range bounds; stored rows are stamped at noon
Midnight == 0 * SecondsPerHour
Noon == 12 * SecondsPerHour
Evening == 18 * SecondsPerHour

\* qs.filter(ts >= start_dt, ts <= end_dt).annotate(d = TruncDate).distinct()
PresentDates(qs, start_dt, end_dt) ==
    {DateOf(ts) : ts \in {x \in qs : x >= start_dt /\ x <= end_dt}}

\* The first pass: walk cur .. last, collect maximal runs of missing dates.
\* run_start and prev are Optionals.
RECURSIVE CollectRuns(_, _, _, _, _, _)
CollectRuns(cur, last, present, run_start, prev, ranges) ==
    IF cur <= last
    THEN IF cur \notin present
         THEN CollectRuns(cur + 1, last, present,
                          IF run_start = <<>> THEN <<cur>> ELSE run_start,
                          <<cur>>, ranges)
         ELSE IF run_start # <<>>
              THEN CollectRuns(cur + 1, last, present, <<>>, <<>>,
                               Append(ranges, <<run_start[1], prev[1]>>))
              ELSE CollectRuns(cur + 1, last, present, run_start, prev, ranges)
    ELSE IF run_start # <<>>
         THEN Append(ranges, <<run_start[1], prev[1]>>)
         ELSE ranges

\* span = max_days_in_range - 1
SliceSpan_OffByOne(max_days_in_range) == max_days_in_range

SliceSpan(max_days_in_range) == max_days_in_range - 1

\* The inner while loop: slice one run into sub-ranges of span + 1 days
RECURSIVE SliceRun(_, _, _, _)
SliceRun(sub_start, end_date, span, clipped) ==
    IF sub_start <= end_date
    THEN LET sub_end == Min(sub_start + span, end_date)
         IN  SliceRun(sub_end + 1, end_date, span,
                      Append(clipped, <<sub_start, sub_end>>))
    ELSE clipped

\* The outer for loop over the collected runs
RECURSIVE ClipRanges(_, _, _, _)
ClipRanges(ranges, i, span, clipped) ==
    IF i > Len(ranges)
    THEN clipped
    ELSE ClipRanges(ranges, i + 1, span,
                    SliceRun(ranges[i][1], ranges[i][2], span, clipped))

\* The date the walk starts at: cur = start_dt.date()
WalkStart_SkipFirst(start_dt) == DateOf(start_dt) + 1

WalkStart(start_dt) == DateOf(start_dt)

\* start_dt and end_dt are Optionals
missing_date_ranges(qs, start_dt, end_dt, max_days_in_range) ==
    IF start_dt = <<>> \/ end_dt = <<>>
    THEN <<>>
    ELSE LET present == PresentDates(qs, start_dt[1], end_dt[1])
             ranges == CollectRuns(WalkStart(start_dt[1]), DateOf(end_dt[1]),
                                   present, <<>>, <<>>, <<>>)
         IN  IF ranges = <<>>
             THEN <<>>
             ELSE ClipRanges(ranges, 1, SliceSpan(max_days_in_range), <<>>)

GapDays == 0 .. MaxGapDay
GapBounds == {d * SecondsPerDay + tod : d \in GapDays, tod \in {Midnight, Evening}}
GapRows == {d * SecondsPerDay + Noon : d \in GapDays}

GapInit ==
    /\ comp = "gaps"
    /\ gIn \in [qs : SUBSET GapRows,
                start_dt : {<<>>} \cup {<<t>> : t \in GapBounds},
                end_dt : {<<>>} \cup {<<t>> : t \in GapBounds},
                max_days : (1 .. MaxGapSpan) \cup {DefaultMaxDays}]
    /\ gOut = <<>>
    /\ SchedIdle /\ CapIdle /\ UsageIdle /\ IngestIdle /\ DispIdle /\ SendIdle

GapCall ==
    /\ comp = "gaps"
    /\ gOut = <<>>
    /\ gOut' = <<missing_date_ranges(gIn.qs, gIn.start_dt, gIn.end_dt, gIn.max_days)>>
    /\ UNCHANGED <<comp, gIn, schedVars, capVars, usageVars, ingestVars, dispVars, sendVars>>

GapNext == GapCall

SpecGaps == GapInit /\ [][GapNext]_vars

(***************************************************************************)
(* Properties of missing_date_ranges                                       *)
(***************************************************************************)
\* The claims' preconditions: both bounds given and start <= end
GapWellFormed == gIn.start_dt # <<>> /\ gIn.end_dt # <<>> /\ gIn.start_dt[1] <= gIn.end_dt[1]

GapMissing ==
    {d \in DateOf(gIn.start_dt[1]) .. DateOf(gIn.end_dt[1]) :
        d \notin PresentDates(gIn.qs, gIn.start_dt[1], gIn.end_dt[1])}

GapCovered(out) == UNION {out[i][1] .. out[i][2] : i \in DOMAIN out}

(* C5: for start <= end and max_days_in_range >= 1 the dates covered by the
   returned ranges are exactly the dates of [start, end] that are not
   present; every range is non-empty, the ranges are pairwise disjoint and
   in strictly increasing order; the result is empty iff nothing is missing. *)
C5_CoversExactlyMissing ==
    (comp = "gaps" /\ gOut # <<>> /\ GapWellFormed) =>
        LET out == gOut[1]
        IN  /\ GapCovered(out) = GapMissing
            /\ \A i \in DOMAIN out : out[i][1] <= out[i][2]
            /\ \A i, j \in DOMAIN out : i < j => out[i][2] < out[j][1]
            /\ (out = <<>>) <=> (GapMissing = {})

\* Scenario A: Jan 1, Jan 2 and Jan 5 present (days 0, 1, 4), range Jan 1 ..
\* Jan 7 (days 0 .. 6), max_days_in_range = 30: (Jan 3, Jan 4), (Jan 6, Jan 7)
C5_Witness ==
    /\ comp = "gaps" /\ gOut # <<>> /\ GapWellFormed
    /\ gIn.qs = {Noon, SecondsPerDay + Noon, 4 * SecondsPerDay + Noon}
    /\ gIn.start_dt = <<Midnight>> /\ gIn.end_dt = <<6 * SecondsPerDay + Evening>>
    /\ gIn.max_days = DefaultMaxDays
    /\ gOut[1] = << <<2, 3>>, <<5, 6>> >>

(* C6: for max_days_in_range >= 1 every returned range spans at most
   max_days_in_range days, and two returned ranges are adjacent (end + 1 =
   next start) only when the earlier one spans exactly max_days_in_range
   days (slicing is left-aligned, only the last slice of a run is shorter). *)
C6_SlicesLeftAligned ==
    (comp = "gaps" /\ gOut # <<>> /\ GapWellFormed) =>
        LET out == gOut[1]
        IN  /\ \A i \in DOMAIN out : out[i][2] - out[i][1] + 1 <= gIn.max_days
            /\ \A i \in DOMAIN out :
                  (i < Len(out) /\ out[i][2] + 1 = out[i + 1][1])
                      => out[i][2] - out[i][1] + 1 = gIn.max_days

\* A run of five missing days cut with max_days_in_range = 2: 2 + 2 + 1
C6_Witness ==
    /\ comp = "gaps" /\ gOut # <<>> /\ GapWellFormed
    /\ gIn.qs = {} /\ gIn.max_days = 2
    /\ gIn.start_dt = <<Midnight>> /\ gIn.end_dt = <<4 * SecondsPerDay + Midnight>>
    /\ gOut[1] = << <<0, 1>>, <<2, 3>>, <<4, 4>> >>

(***************************************************************************)
(* parse_iso_duration, parse_iso_utc, should_run (celery_app/lib/utils.py) *)
(***************************************************************************)
\* A Python str is a sequence of one-character strings.
DigitChars == <<"0", "1", "2", "3", "4", "5", "6", "7", "8", "9">>

IsDigit(c) == \E i \in DOMAIN DigitChars : DigitChars[i] = c

DigitVal(c) == (CHOOSE i \in DOMAIN DigitChars : DigitChars[i] = c) - 1

\* \d+ is greedy: the index just after the digits that start at i
RECURSIVE DigitsEnd(_, _)
DigitsEnd(s, i) == IF i <= Len(s) /\ IsDigit(s[i]) THEN DigitsEnd(s, i + 1) ELSE i

\* int() of the digits s[i .. j-1]
RECURSIVE IntOf(_, _, _, _)
IntOf(s, i, j, acc) == IF i >= j THEN acc ELSE IntOf(s, i + 1, j, 10 * acc + DigitVal(s[i]))

\* One optional group (?:(\d+)<letter>)? tried at i: the position after it and
\* the group's value, "or 0" when the group does not take part in the match
DurGroup(s, i, letter) ==
    LET j == DigitsEnd(s, i)
    IN  IF j > i /\ j <= Len(s) /\ s[j] = letter
        THEN [pos |-> j + 1, val |-> IntOf(s, i, j, 0)]
        ELSE [pos |-> i, val |-> 0]

\* $ matches at the end of the string and just before a final newline
AtDollar(s, i) == i = Len(s) + 1 \/ (i = Len(s) /\ s[i] = "\n")

\* ISO_DUR_RE.match(s): <<>> for no match, else <<[d, h, m, s]>>
IsoDurMatch(s) ==
    IF Len(s) = 0 \/ s[1] # "P"
    THEN <<>>
    ELSE LET d == DurGroup(s, 2, "D")
         IN  IF d.pos <= Len(s) /\ s[d.pos] = "T"
             THEN LET h == DurGroup(s, d.pos + 1, "H")
                      m == DurGroup(s, h.pos, "M")
                      se == DurGroup(s, m.pos, "S")
                  IN  IF AtDollar(s, se.pos)
                      THEN <<[d |-> d.val, h |-> h.val, m |-> m.val, s |-> se.val]>>
                      ELSE <<>>
             ELSE IF AtDollar(s, d.pos)
                  THEN <<[d |-> d.val, h |-> 0, m |-> 0, s |-> 0]>>
                  ELSE <<>>

\* timedelta(days, hours, minutes, seconds) as its total_seconds()
TimeDelta(d, h, mi, se) ==
    d * SecondsPerDay + h * SecondsPerHour + mi * SecondsPerMinute + se

\* parse_iso_duration(s): s is an Optional str; the result an Optional duration
parse_iso_duration(s) ==
    IF s = <<>> \/ s[1] = <<>>
    THEN <<>>
    ELSE LET m == IsoDurMatch(s[1])
         IN  IF m = <<>>
             THEN <<>>
             ELSE <<TimeDelta(m[1].d, m[1].h, m[1].m, m[1].s)>>

\* A JSON value stored under "last_update", by what parse_iso_utc makes of it:
\*   [k |-> "absent"]                  no such key (.get gives None), or null
\*   [k |-> "number"]                  not a str
\*   [k |-> "blank"]                   a str that is empty after strip()
\*   [k |-> "garbled"]                 a str datetime.fromisoformat rejects
\*   [k |-> "iso", wall, off]          an ISO timestamp: wall-clock seconds and
\*                                     an Optional UTC offset in seconds
parse_iso_utc(v) ==
    IF v.k = "iso"
    THEN IF v.off = <<>> THEN <<v.wall>> ELSE <<v.wall - v.off[1]>>
    ELSE <<>>

\* The value of link.status[mode_bucket], by its JSON shape:
\*   [k |-> "absent"]   the key is missing, status is empty, or the entry is
\*                      falsy (null, {}, "", 0): "or {}" makes it an empty dict
\*   [k |-> "map", last_update]   a JSON object
\*   [k |-> "scalar"]   a truthy value that is no object (a str, a number, a list)
Ret(v) == [k |-> "ret", v |-> v]
Raise(exc) == [k |-> "raise", exc |-> exc]

\* not period or period.total_seconds() <= 0, negated
PeriodUsable(period) == period # <<>> /\ period[1] > 0

\* The final comparison of should_run
Elapsed_Strict(now, last_at, period) == (now - last_at) > period

Elapsed(now, last_at, period) == (now - last_at) >= period

should_run(entry, period_iso, now) ==
    IF period_iso = <<>> \/ period_iso[1] = <<>>
    THEN Ret(FALSE)
    ELSE LET period == parse_iso_duration(period_iso)
         IN  IF ~PeriodUsable(period)
             THEN Ret(FALSE)
             ELSE IF entry.k = "scalar"
                  THEN Raise("AttributeError")
                  ELSE LET last_at == IF entry.k = "absent"
                                      THEN <<>>
                                      ELSE parse_iso_utc(entry.last_update)
                       IN  IF last_at = <<>>
                           THEN Ret(TRUE)
                           ELSE Ret(Elapsed(now, last_at[1], period[1]))

\* The period strings drawn: valid ones, zero ones, and ones the grammar rejects
ValidPeriods ==
    { <<"P", "T", "1", "5", "M">>, <<"P", "T", "1", "H">>, <<"P", "1", "D">>,
      <<"P", "T", "1", "M", "3", "0", "S">>, <<"P", "1", "D", "T", "2", "H">>,
      <<"P", "T", "9", "0", "S">>, <<"P", "T", "1", "5", "M", "\n">> }

ZeroPeriods ==
    { <<"P">>, <<"P", "T">>, <<"P", "T", "0", "M">>, <<"P", "0", "D">>,
      <<"P", "0", "D", "T", "0", "H", "0", "M", "0", "S">> }

BadPeriods ==
    { <<"1", "5", "M">>, <<"P", "T", "1", "5">>, <<"P", "1", "5", "M">>,
      <<"P", "T", "1", "S", "1", "M">>, <<"p", "t", "1", "5", "m">>,
      <<"P", "T", "-", "5", "M">>, <<" ", "P", "T", "1", "5", "M">>,
      <<"P", "T", "1", "5", "M", " ">>, <<"P", "T", "1", ".", "5", "H">>,
      <<"P", "1", "W">>, <<"P", "T", "M">>, <<"1", "5">> }

PeriodInputs ==
    {<<>>, << <<>> >>} \cup {<<s>> : s \in ValidPeriods \cup ZeroPeriods \cup BadPeriods}

\* The evaluation time, and the offsets of last_update from it
SchedNow == 3 * SecondsPerDay
SchedAges ==
    UNION {{p - 1, p, p + 1} : p \in {parse_iso_duration(<<s>>)[1] : s \in ValidPeriods}}
        \cup {10 * SecondsPerMinute, 16 * SecondsPerMinute, 0 - SecondsPerMinute}
TzOffsets == {<<>>, <<0>>, <<2 * SecondsPerHour>>}

LastUpdateInputs ==
    {[k |-> x] : x \in {"absent", "number", "blank", "garbled"}}
        \cup {[k |-> "iso", wall |-> SchedNow - age + (IF off = <<>> THEN 0 ELSE off[1]),
               off |-> off] : age \in SchedAges, off \in TzOffsets}

EntryInputs ==
    {[k |-> "absent"], [k |-> "scalar"]}
        \cup {[k |-> "map", last_update |-> lu] : lu \in LastUpdateInputs}

SchedInit ==
    /\ comp = "sched"
    /\ sIn \in [period_iso : PeriodInputs, entry : EntryInputs, now : {SchedNow}]
    /\ sOut = <<>>
    /\ GapIdle /\ CapIdle /\ UsageIdle /\ IngestIdle /\ DispIdle /\ SendIdle

SchedCall ==
    /\ comp = "sched"
    /\ sOut = <<>>
    /\ sOut' = <<should_run(sIn.entry, sIn.period_iso, sIn.now)>>
    /\ UNCHANGED <<comp, sIn, gapVars, capVars, usageVars, ingestVars, dispVars, sendVars>>

SchedNext == SchedCall

SpecSched == SchedInit /\ [][SchedNext]_vars

(***************************************************************************)
(* Properties of should_run                                                *)
(***************************************************************************)
\* The period strings the restricted ISO-8601 grammar accepts, stated on the
\* shape of the string: "P", then <n>D or nothing, then nothing or "T" with
\* <n>H, <n>M, <n>S each present or not, in that order.
Num(n) == IF n < 10 THEN <<DigitChars[n + 1]>> ELSE <<DigitChars[(n \div 10) + 1], DigitChars[(n % 10) + 1]>>

Part(n, letter) == IF n = <<>> THEN <<>> ELSE Num(n[1]) \o <<letter>>

OptNum == {<<>>} \cup {<<n>> : n \in {0, 1, 2, 5, 15, 30, 90}}

GrammarStrings ==
    {<<"P">> \o Part(d, "D") \o t : d \in OptNum,
        t \in {<<>>} \cup {<<"T">> \o Part(h, "H") \o Part(m, "M") \o Part(se, "S") :
                    h \in OptNum, m \in OptNum, se \in OptNum}}

\* The duration such a string denotes, read off its parts
RECURSIVE DenotedSeconds(_, _, _)
DenotedSeconds(s, i, acc) ==
    IF i > Len(s) THEN 0
    ELSE IF IsDigit(s[i]) THEN DenotedSeconds(s, i + 1, 10 * acc + DigitVal(s[i]))
    ELSE (CASE s[i] = "D" -> acc * 86400
            [] s[i] = "H" -> acc * 3600
            [] s[i] = "M" -> acc * 60
            [] s[i] = "S" -> acc
            [] OTHER -> 0) + DenotedSeconds(s, i + 1, 0)

\* Missing, empty, outside the grammar, or denoting a duration <= 0
PeriodUnusable(p) ==
    \/ p = <<>>
    \/ p[1] = <<>>
    \/ p[1] \notin GrammarStrings
    \/ DenotedSeconds(p[1], 1, 0) <= 0

(* C7: should_run returns false whenever the period string is missing,
   empty, not matched by the duration grammar, or denotes a duration <= 0
   ("P", "PT0M"), whatever the link's status entry and last_update are. *)
C7_UnusablePeriodNeverRuns ==
    (comp = "sched" /\ sOut # <<>> /\ PeriodUnusable(sIn.period_iso))
        => sOut[1] = Ret(FALSE)

\* last_update is recorded: the entry is an object holding an ISO timestamp
LastRecorded == sIn.entry.k = "map" /\ sIn.entry.last_update.k = "iso"

\* no last_update is recorded for (mode, bucket)
NoneRecorded ==
    \/ sIn.entry.k = "absent"
    \/ sIn.entry.k = "map" /\ sIn.entry.last_update.k = "absent"

\* The recorded instant in UTC
LastInstant ==
    LET lu == sIn.entry.last_update
    IN  IF lu.off = <<>> THEN lu.wall ELSE lu.wall - lu.off[1]

(* C8: for a valid positive period, should_run returns true when the link
   has no last_update recorded for (mode, bucket), and otherwise returns
   true iff now - last_update >= period, the boundary included. *)
C8_RunsIffPeriodElapsed ==
    (comp = "sched" /\ sOut # <<>> /\ ~PeriodUnusable(sIn.period_iso)) =>
        /\ NoneRecorded => sOut[1] = Ret(TRUE)
        /\ LastRecorded =>
              sOut[1] = Ret(sIn.now - LastInstant >= DenotedSeconds(sIn.period_iso[1], 1, 0))

\* Scenario C at the boundary: "PT15M" and last_update exactly 15 minutes ago
C8_Witness ==
    /\ comp = "sched" /\ sOut # <<>>
    /\ sIn.period_iso = << <<"P", "T", "1", "5", "M">> >>
    /\ LastRecorded
    /\ sIn.now - LastInstant = 15 * 60
    /\ sOut[1] = Ret(TRUE)

(***************************************************************************)
(* window_count, token_has_capacity (celery_app/lib/utils.py)              *)
(***************************************************************************)
\* The calendar: the epoch is 2025-01-01T00:00:00Z and years have 365 days
\* (true of 2025 .. 2027). strftime("%Y-%m-%d") is modelled by the day number
\* and strftime("%Y-%m") by the month number, which order as the strings do.
MonthLengths == <<31, 28, 31, 30, 31, 30, 31, 31, 30, 31, 30, 31>>

RECURSIVE MonthOfYearDay(_, _)
MonthOfYearDay(yday, m) ==
    IF yday < MonthLengths[m] THEN m ELSE MonthOfYearDay(yday - MonthLengths[m], m + 1)

DayKey(now) == DateOf(now)

MonthKey(now) == 12 * (DateOf(now) \div 365) + MonthOfYearDay(DateOf(now) % 365, 1) - 1

\* dict.get(key, default) on a dict modelled as a function
Get(d, key, default) == IF key \in DOMAIN d THEN d[key] ELSE default

\* The lengths of the two sliding windows, in seconds
PerMinuteSeconds == 60
PerHourSeconds == 3600

\* The expiry test of window_count
WindowExpired_Late(now, start, seconds) == (now - start) > seconds

WindowExpired(now, start, seconds) == (now - start) >= seconds

\* window_count(win, now, seconds): win is an Optional [start, count]; an
\* absent window and {} both arrive as the empty dict
window_count(win, now, seconds) ==
    IF win = <<>>
    THEN 0
    ELSE LET start == parse_iso_utc(win[1].start)
         IN  IF start = <<>>
             THEN 0
             ELSE IF WindowExpired(now, start[1], seconds)
                  THEN 0
                  ELSE win[1].count

\* token.stats.order_by("-updated_at").first(): an Optional row
LatestStat(stats) ==
    IF stats = {}
    THEN <<>>
    ELSE <<CHOOSE d \in stats : \A e \in stats : e.updated_at <= d.updated_at>>

\* The comparison of one check
HasHeadroom(count, limit) == count < limit

\* The early return on a provider without limits
NoLimits_Never(limits) == FALSE

NoLimits(limits) == DOMAIN limits = {}

\* The early return on a credential without a stat row, or with an empty meta
NoStats_Pessimistic == [has |-> FALSE, reason |-> "no_stats"]

NoStats == [has |-> TRUE, reason |-> "no_stats"]

\* token_has_capacity(token, now): limits is provider.config["limits"] (a dict,
\* empty when absent), stats the token's ProviderTokenStat rows. A row's meta
\* is a dict with keys among "usage", "limits", "exceeded".
token_has_capacity(limits, stats, now) ==
    IF NoLimits(limits)
    THEN [has |-> TRUE, reason |-> "no_limits"]
    ELSE LET stat == LatestStat(stats)
         IN  IF stat = <<>> \/ DOMAIN stat[1].meta = {}
             THEN NoStats
             ELSE LET meta == stat[1].meta
                      per_minute == IF "usage" \in DOMAIN meta
                                    THEN window_count(meta.usage.per_minute, now, PerMinuteSeconds)
                                    ELSE 0
                      per_hour == IF "usage" \in DOMAIN meta
                                  THEN window_count(meta.usage.per_hour, now, PerHourSeconds)
                                  ELSE 0
                      by_day == IF "usage" \in DOMAIN meta
                                THEN Get(meta.usage.by_day, DayKey(now), 0)
                                ELSE 0
                      by_month == IF "usage" \in DOMAIN meta
                                  THEN Get(meta.usage.by_month, MonthKey(now), 0)
                                  ELSE 0
                      checks ==
                          (IF "per_minute" \in DOMAIN limits
                           THEN {HasHeadroom(per_minute, limits["per_minute"])} ELSE {})
                          \cup (IF "per_hour" \in DOMAIN limits
                                THEN {HasHeadroom(per_hour, limits["per_hour"])} ELSE {})
                          \cup (IF "per_day" \in DOMAIN limits
                                THEN {HasHeadroom(by_day, limits["per_day"])} ELSE {})
                          \cup (IF "per_month" \in DOMAIN limits
                                THEN {HasHeadroom(by_month, limits["per_month"])} ELSE {})
                  IN  [has |-> (FALSE \notin checks), reason |-> "checked"]

\* The credential's rows after the call: window_count and token_has_capacity
\* compute from what they read; neither assigns to a row nor calls save()
StatsAfterCapacityRead_Resetting(stats, now) ==
    {IF /\ "usage" \in DOMAIN r.meta
        /\ r.meta.usage.per_minute # <<>>
        /\ parse_iso_utc(r.meta.usage.per_minute[1].start) # <<>>
        /\ WindowExpired(now, parse_iso_utc(r.meta.usage.per_minute[1].start)[1],
                         PerMinuteSeconds)
     THEN [r EXCEPT !.meta = [k \in {"usage"} |-> [r.meta.usage EXCEPT !.per_minute = <<>>]]]
     ELSE r : r \in stats}

StatsAfterCapacityRead(stats, now) == stats

\* Bounds of the inputs drawn for token_has_capacity
CapLimit == 2

WindowKeys == {"per_minute", "per_hour", "per_day", "per_month"}

\* A dict given by the set of its keys and one value for all of them
ConstDict(keys, v) == [k \in keys |-> v]

\* The limits drawn: any set of the four keys at CapLimit, "per_minute" also
\* at 0, with or without a key no check reads
CapLimitsInputs ==
    {ConstDict(ks, CapLimit) : ks \in SUBSET (WindowKeys \cup {"per_second"})}
        \cup {[k \in ks \cup {"per_minute"} |-> IF k = "per_minute" THEN 0 ELSE CapLimit] :
                 ks \in SUBSET (WindowKeys \ {"per_minute"})}

\* The evaluation time: 2025-03-02T01:00:00Z, so that "an hour ago" is the same
\* day and "yesterday" is the same month
CapNow == (31 + 28 + 1) * SecondsPerDay + SecondsPerHour

IsoUtc(t) == [k |-> "iso", wall |-> t, off |-> <<0>>]

CapCounts == {CapLimit - 1, CapLimit}

CapWindows(seconds, ages) ==
    {<<>>, <<[start |-> [k |-> "garbled"], count |-> CapLimit]>>}
        \cup {<<[start |-> IsoUtc(CapNow - age), count |-> c]>> : age \in ages, c \in CapCounts}

\* A calendar dict: the current key absent or counted, beside an older key
\* that is over every limit
CapCalendar(key) ==
    {[k \in {key - 1} |-> CapLimit + 1]}
        \cup {[k \in {key - 1, key} |-> IF k = key THEN c ELSE CapLimit + 1] : c \in CapCounts}

CapUsages ==
    [total : {CapLimit},
     per_minute : CapWindows(PerMinuteSeconds, {0, PerMinuteSeconds - 1, PerMinuteSeconds}),
     per_hour : CapWindows(PerHourSeconds,
                           {10 * SecondsPerMinute, PerHourSeconds, 61 * SecondsPerMinute}),
     by_day : CapCalendar(DayKey(CapNow)),
     by_month : CapCalendar(MonthKey(CapNow))]

\* A usage that is at the limit in every window
SaturatedUsage ==
    [total |-> CapLimit,
     per_minute |-> <<[start |-> IsoUtc(CapNow), count |-> CapLimit]>>,
     per_hour |-> <<[start |-> IsoUtc(CapNow), count |-> CapLimit]>>,
     by_day |-> [k \in {DayKey(CapNow)} |-> CapLimit],
     by_month |-> [k \in {MonthKey(CapNow)} |-> CapLimit]]

StatRow(id, updated_at, meta) == [id |-> id, updated_at |-> updated_at, meta |-> meta]

UsageMeta(u) == [k \in {"usage"} |-> u]

\* The rows of the credential: none, one with an empty meta, one with the
\* drawn usage, or the drawn usage in the newest of two rows
CapStats(shape, u) ==
    CASE shape = "none" -> {}
      [] shape = "empty" -> {StatRow(1, CapNow - 1, <<>>)}
      [] shape = "one" -> {StatRow(1, CapNow - 1, UsageMeta(u))}
      [] shape = "two" -> {StatRow(1, CapNow - 2, UsageMeta(SaturatedUsage)),
                           StatRow(2, CapNow - 1, UsageMeta(u))}

CapInit ==
    /\ comp = "cap"
    /\ \E lim \in CapLimitsInputs, u \in CapUsages, shape \in {"none", "empty", "one", "two"} :
          cIn = [limits |-> lim, stats |-> CapStats(shape, u), now |-> CapNow]
    /\ cOut = <<>>
    /\ GapIdle /\ SchedIdle /\ UsageIdle /\ IngestIdle /\ DispIdle /\ SendIdle

CapCall ==
    /\ comp = "cap"
    /\ cOut = <<>>
    /\ cOut' = <<token_has_capacity(cIn.limits, cIn.stats, cIn.now)>>
    /\ cIn' = [cIn EXCEPT !.stats = StatsAfterCapacityRead(cIn.stats, cIn.now)]
    /\ UNCHANGED <<comp, gapVars, schedVars, usageVars, ingestVars, dispVars, sendVars>>

CapNext == CapCall

SpecCap == CapInit /\ [][CapNext]_vars

(***************************************************************************)
(* Properties of token_has_capacity                                        *)
(***************************************************************************)
\* The usage snapshot the capacity read is about: the newest row's usage
CapSnapshot == (CHOOSE d \in cIn.stats : \A e \in cIn.stats : e.updated_at <= d.updated_at).meta

\* A snapshot exists and its sliding windows, where stored, carry a timestamp
CapSnapshotExists ==
    /\ cIn.stats # {}
    /\ "usage" \in DOMAIN CapSnapshot
    /\ \A w \in {CapSnapshot.usage.per_minute, CapSnapshot.usage.per_hour} :
          w # <<>> => w[1].start.k = "iso"

\* Seconds from the window's start to now (starts are stored in UTC here)
WindowAge(w) == cIn.now - (w.start.wall - w.start.off[1])

SlidingEffective(w, length) ==
    IF w = <<>> THEN 0
    ELSE IF WindowAge(w[1]) < length THEN w[1].count ELSE 0

CalendarEffective(d, key) == IF key \in DOMAIN d THEN d[key] ELSE 0

EffectiveCount(key) ==
    CASE key = "per_minute" -> SlidingEffective(CapSnapshot.usage.per_minute, 60)
      [] key = "per_hour" -> SlidingEffective(CapSnapshot.usage.per_hour, 3600)
      [] key = "per_day" -> CalendarEffective(CapSnapshot.usage.by_day, cIn.now \div 86400)
      [] key = "per_month" -> CalendarEffective(CapSnapshot.usage.by_month, MonthKey(cIn.now))

(* C9: with limits configured and a usage snapshot stored, token_has_capacity
   returns true iff for every configured key among per_minute, per_hour,
   per_day, per_month the effective count is strictly below the limit: a
   sliding window counts its stored count while now - start < 60 s / 3600 s
   and 0 afterwards; a calendar window counts the entry of the current day /
   month, 0 if absent. *)
C9_CapacityIffAllBelowLimit ==
    (comp = "cap" /\ cOut # <<>> /\ DOMAIN cIn.limits # {} /\ CapSnapshotExists) =>
        cOut[1].has = (\A key \in DOMAIN cIn.limits \cap WindowKeys :
                            EffectiveCount(key) < cIn.limits[key])

\* Scenario B, second half: only per_hour is limited, the stored per_hour
\* window is at the limit but started 61 minutes ago: capacity
C9_Witness ==
    /\ comp = "cap" /\ cOut # <<>> /\ CapSnapshotExists
    /\ DOMAIN cIn.limits = {"per_hour"}
    /\ CapSnapshot.usage.per_hour # <<>>
    /\ CapSnapshot.usage.per_hour[1].count = cIn.limits["per_hour"]
    /\ WindowAge(CapSnapshot.usage.per_hour[1]) = 61 * 60
    /\ cOut[1].has

(* C10: token_has_capacity returns true with reason "no_limits" whenever the
   provider has no limits configured, whatever usage the credential has
   stored, however large its counters. *)
C10_NoLimitsAlwaysCapacity ==
    (comp = "cap" /\ cOut # <<>> /\ DOMAIN cIn.limits = {})
        => cOut[1] = [has |-> TRUE, reason |-> "no_limits"]

\* No limits, and a stored usage whose every window is at or above CapLimit
C10_Witness ==
    /\ comp = "cap" /\ cOut # <<>>
    /\ DOMAIN cIn.limits = {}
    /\ CapSnapshotExists
    /\ \A key \in WindowKeys : EffectiveCount(key) >= CapLimit
    /\ cOut[1].has

(* C11: with limits configured and no usage snapshot stored for the
   credential (it was never used), token_has_capacity returns true with
   reason "no_stats", whatever the limit values are. *)
C11_NeverUsedHasCapacity ==
    (comp = "cap" /\ cOut # <<>> /\ DOMAIN cIn.limits # {} /\ cIn.stats = {})
        => cOut[1] = [has |-> TRUE, reason |-> "no_stats"]

\* A never-used credential under a per_minute limit of 0, which no count is
\* below
C11_Witness ==
    /\ comp = "cap" /\ cOut # <<>>
    /\ cIn.stats = {}
    /\ "per_minute" \in DOMAIN cIn.limits /\ cIn.limits["per_minute"] = 0
    /\ cOut[1].has /\ cOut[1].reason = "no_stats"

(***************************************************************************)
(* _bump_rolling_window, OpenMeteoInterface.update_provider_token_stats    *)
(* (weathers/interfaces/open_meteo_interface.py), ProviderTokenStat        *)
(* (weathers/models.py)                                                    *)
(***************************************************************************)
\* The start of a stored window as _bump_rolling_window reads it:
\* datetime.fromisoformat in a try block, a naive value made aware with
\* timezone.utc, where timezone is django.utils.timezone (the second import
\* of the name): the attribute exists in some Django versions only, and its
\* AttributeError is swallowed with every other exception (start = None).
BumpStart(start, tz_utc) ==
    IF start.k = "iso"
    THEN IF start.off = <<>>
         THEN IF tz_utc THEN <<start.wall>> ELSE <<>>
         ELSE <<start.wall - start.off[1]>>
    ELSE <<>>

\* The count a window restarts from before the increment
RestartCount == 0

\* The expiry test of _bump_rolling_window
BumpExpired_Strict(now, start, seconds) == (now - start) > seconds

BumpExpired(now, start, seconds) == (now - start) >= seconds

\* _bump_rolling_window(win, now, seconds): win is an Optional [start, count]
\* ({} when absent); now.isoformat() of an aware UTC now carries "+00:00"
_bump_rolling_window(win, now, seconds, tz_utc) ==
    LET start == IF win = <<>> THEN <<>> ELSE BumpStart(win[1].start, tz_utc)
        base == IF start = <<>> \/ BumpExpired(now, start[1], seconds)
                THEN [start |-> IsoUtc(now), count |-> RestartCount]
                ELSE win[1]
    IN  <<[base EXCEPT !.count = @ + 1]>>

\* The thresholds and the sizes kept by the pruning of the calendar dicts
DayKeysMax == 150
DayKeysKept == 120
MonthKeysMax == 30
MonthKeysKept == 24

\* for k in sorted(d.keys())[:-kept]: d.pop(k), when len(d) > max
Pruned_KeepOldest(d, max, kept) ==
    IF Cardinality(DOMAIN d) > max
    THEN [k \in {x \in DOMAIN d : Cardinality({y \in DOMAIN d : y < x}) < kept} |-> d[k]]
    ELSE d

Pruned(d, max, kept) ==
    IF Cardinality(DOMAIN d) > max
    THEN [k \in {x \in DOMAIN d : Cardinality({y \in DOMAIN d : y > x}) < kept} |-> d[k]]
    ELSE d

\* dict.update and item assignment
DictSet(d, key, v) == [k \in DOMAIN d \cup {key} |-> IF k = key THEN v ELSE d[k]]

DictUpdate(d, e) == [k \in DOMAIN d \cup DOMAIN e |-> IF k \in DOMAIN e THEN e[k] ELSE d[k]]

\* meta.get("usage") or {} with every later .get default applied
EmptyUsage ==
    [total |-> 0, by_day |-> <<>>, by_month |-> <<>>, per_minute |-> <<>>, per_hour |-> <<>>]

\* The increment applied to usage["total"]
TotalBump_Twice(total) == total + 2

TotalBump(total) == total + 1

\* The exceeded flags of the limits in force
Exceeded(limits, usage, day_key, month_key) ==
    [k \in DOMAIN limits \cap WindowKeys |->
        CASE k = "per_minute" -> usage.per_minute[1].count >= limits[k]
          [] k = "per_hour" -> usage.per_hour[1].count >= limits[k]
          [] k = "per_day" -> usage.by_day[day_key] >= limits[k]
          [] k = "per_month" -> usage.by_month[month_key] >= limits[k]]

\* The body of the atomic block after get_or_create: the new meta of the row
\* computed from the meta read under the lock
UpdatedMeta(meta, prov_limits, now, status, tz_utc) ==
    LET old == IF "usage" \in DOMAIN meta THEN meta.usage ELSE EmptyUsage
        day_key == DayKey(now)
        month_key == MonthKey(now)
        by_day == DictSet(old.by_day, day_key, Get(old.by_day, day_key, 0) + 1)
        by_month == DictSet(old.by_month, month_key, Get(old.by_month, month_key, 0) + 1)
        bumped == [total |-> TotalBump(old.total),
                   by_day |-> by_day,
                   by_month |-> by_month,
                   per_minute |-> _bump_rolling_window(old.per_minute, now, PerMinuteSeconds, tz_utc),
                   per_hour |-> _bump_rolling_window(old.per_hour, now, PerHourSeconds, tz_utc),
                   last_status |-> status,
                   last_at |-> now]
        limits == DictUpdate(Get(meta, "limits", <<>>), prov_limits)
        exceeded == Exceeded(limits, bumped, day_key, month_key)
        usage == [bumped EXCEPT !.by_day = Pruned(by_day, DayKeysMax, DayKeysKept),
                                !.by_month = Pruned(by_month, MonthKeysMax, MonthKeysKept)]
        with_usage == DictSet(meta, "usage", usage)
    IN  IF DOMAIN limits # {}
        THEN DictSet(DictSet(with_usage, "limits", limits), "exceeded", exceeded)
        ELSE with_usage

\* Bounds of the concurrent runs of update_provider_token_stats
MaxWorkers == 2
MaxCalls == 3
MaxTicks == 2

Workers == 1 .. MaxWorkers

\* The steps of the clock: within a minute, up to the minute, up to the hour
ClockSteps == {1, PerMinuteSeconds - 1, PerHourSeconds - PerMinuteSeconds}

\* The HTTP statuses of the responses passed in
RespStatuses == {200, 429}

WorkerIdle == [pc |-> "idle"]

\* The rows a statement of another transaction can see: the committed ones
Locked(row_id) == \E w \in Workers : uWorker[w].pc = "locked" /\ uWorker[w].row.id = row_id

\* The database constraint on ProviderTokenStat.token: a ForeignKey, which is
\* not unique, so an INSERT for a token that has a row succeeds
InsertAllowed(stats) == TRUE

UsageInit ==
    /\ comp = "usage"
    /\ uLimits \in {<<>>, ConstDict({"per_minute", "per_day"}, CapLimit)}
    /\ uTzUtc \in BOOLEAN
    /\ uNow = CapNow
    /\ uTicks = 0
    \* no row yet (created lazily on first use), or the row of one earlier use
    /\ \E had \in BOOLEAN :
          /\ uStats = IF had
                      THEN {StatRow(1, CapNow - PerMinuteSeconds,
                                    UpdatedMeta(<<>>, uLimits, CapNow - PerMinuteSeconds, 200, uTzUtc))}
                      ELSE {}
          /\ uNextId = IF had THEN 2 ELSE 1
          /\ uBase = IF had THEN 1 ELSE 0
    /\ uWorker = [w \in Workers |-> WorkerIdle]
    /\ uStarted = 0 /\ uReturned = 0 /\ uRaised = 0
    /\ GapIdle /\ SchedIdle /\ CapIdle /\ IngestIdle /\ DispIdle /\ SendIdle

UsageFrame == UNCHANGED <<comp, gapVars, schedVars, capVars, ingestVars, dispVars, sendVars, uLimits, uTzUtc, uBase>>

\* The wall clock advances
UsageTick ==
    /\ comp = "usage"
    /\ uTicks < MaxTicks
    /\ \E d \in ClockSteps : uNow' = uNow + d
    /\ uTicks' = uTicks + 1
    /\ UNCHANGED <<uStats, uNextId, uWorker, uStarted, uReturned, uRaised, uBase>>
    /\ UsageFrame

\* update_provider_token_stats is entered: now = timezone.now(), BEGIN
UpdBegin(w) ==
    /\ comp = "usage"
    /\ uWorker[w].pc = "idle"
    /\ uStarted < MaxCalls
    /\ \E status \in RespStatuses :
          uWorker' = [uWorker EXCEPT ![w] = [pc |-> "get", now |-> uNow, status |-> status]]
    /\ uStarted' = uStarted + 1
    /\ UNCHANGED <<uStats, uNow, uTicks, uNextId, uReturned, uRaised>>
    /\ UsageFrame

\* get_or_create, first half: SELECT ... WHERE token = ... FOR UPDATE. The
\* statement waits while a row it selects is locked by another transaction;
\* it sees committed rows only. One row: locked and read. No row:
\* DoesNotExist, on to the create. Several rows: MultipleObjectsReturned,
\* which get_or_create does not catch: the call raises and rolls back.
UpdGet(w) ==
    /\ comp = "usage"
    /\ uWorker[w].pc = "get"
    /\ \A r \in uStats : ~Locked(r.id)
    /\ IF uStats = {}
       THEN /\ uWorker' = [uWorker EXCEPT ![w].pc = "create"]
            /\ UNCHANGED uRaised
       ELSE IF Cardinality(uStats) = 1
            THEN /\ uWorker' = [uWorker EXCEPT ![w] =
                        [pc |-> "locked", now |-> @.now, status |-> @.status,
                         row |-> CHOOSE r \in uStats : TRUE, created |-> FALSE]]
                 /\ UNCHANGED uRaised
            ELSE /\ uWorker' = [uWorker EXCEPT ![w] = WorkerIdle]
                 /\ uRaised' = uRaised + 1
    /\ UNCHANGED <<uStats, uNow, uTicks, uNextId, uStarted, uReturned>>
    /\ UsageFrame

\* get_or_create, second half: INSERT the row with meta = {}. The new row is
\* not visible to other transactions before the commit.
UpdCreate(w) ==
    /\ comp = "usage"
    /\ uWorker[w].pc = "create"
    /\ IF InsertAllowed(uStats)
       THEN /\ uWorker' = [uWorker EXCEPT ![w] =
                   [pc |-> "locked", now |-> @.now, status |-> @.status,
                    row |-> StatRow(uNextId, @.now, <<>>), created |-> TRUE]]
            /\ uNextId' = uNextId + 1
       ELSE \* IntegrityError: get_or_create goes back to the get
            /\ uWorker' = [uWorker EXCEPT ![w].pc = "get"]
            /\ UNCHANGED uNextId
    /\ UNCHANGED <<uStats, uNow, uTicks, uStarted, uReturned, uRaised, uBase>>
    /\ UsageFrame

\* The rest of the atomic block: the counters are computed from the meta
\* read, stat.save(update_fields = ["meta", "updated_at"]) writes them
\* (updated_at is auto_now), and leaving the block commits and unlocks.
UpdCommit(w) ==
    /\ comp = "usage"
    /\ uWorker[w].pc = "locked"
    /\ LET me == uWorker[w]
           saved == StatRow(me.row.id, uNow,
                            UpdatedMeta(me.row.meta, uLimits, me.now, me.status, uTzUtc))
       IN  uStats' = {r \in uStats : r.id # me.row.id} \cup {saved}
    /\ uWorker' = [uWorker EXCEPT ![w] = WorkerIdle]
    /\ uReturned' = uReturned + 1
    /\ UNCHANGED <<uNow, uTicks, uNextId, uStarted, uRaised>>
    /\ UsageFrame

UsageNext ==
    \/ UsageTick
    \/ \E w \in Workers : UpdBegin(w)
    \/ \E w \in Workers : UpdGet(w)
    \/ \E w \in Workers : UpdCreate(w)
    \/ \E w \in Workers : UpdCommit(w)

SpecUsage == UsageInit /\ [][UsageNext]_vars

(***************************************************************************)
(* Properties of update_provider_token_stats                               *)
(***************************************************************************)
\* usage.total of a row (0 for a row never written)
TotalOf(row) == IF "usage" \in DOMAIN row.meta THEN row.meta.usage.total ELSE 0

\* No call is in progress
UsageQuiescent == \A w \in Workers : uWorker[w].pc = "idle"

\* The calls that completed: every call begun has returned or raised
UsageCompleted == uReturned + uRaised

(* C1: for any interleaving of N >= 1 concurrent usage updates of one
   credential, starting without a usage document, once all calls have
   completed the credential has one usage document and its usage.total is
   exactly N: no increment is lost and none lands in a second document. *)
C1_NoLostIncrement ==
    (comp = "usage" /\ UsageQuiescent /\ uStarted >= 1 /\ uBase = 0)
        => /\ Cardinality(uStats) = 1
           /\ \A r \in uStats : TotalOf(r) = uStarted

(***************************************************************************)
(* BaseProviderInterface.send_request                                      *)
(* (weathers/interfaces/base_interface.py) of one adapter, with the usage  *)
(* document of its credential                                              *)
(***************************************************************************)
\* Bounds of the calls of send_request
MaxSends == 2
MaxSendTicks == 1

\* How an HTTP exchange can end: a response with a status, requests.Timeout,
\* or another requests exception
HttpStatuses == {200, 429}
HttpOutcomes ==
    {Ret(st) : st \in HttpStatuses} \cup {Raise(e) : e \in {"Timeout", "ConnectionError"}}

\* The steps of the clock: within a minute, the minute, the hour, to the
\* next day, to the next month
SendClockSteps == {1, PerMinuteSeconds, PerHourSeconds, SecondsPerDay, 31 * SecondsPerDay}

\* resp.raise_for_status(): HTTPError for a 4xx or 5xx status
raise_for_status(status) == IF status >= 400 THEN Raise("HTTPError") ELSE Ret(status)

\* update_provider_token_stats run by the only user of the credential: the
\* row is got or created with meta = {}, the counters are computed from the
\* meta read and saved; [stats, next_id, read, saved]
update_provider_token_stats(stats, next_id, limits, now, status, tz_utc) ==
    LET row == IF stats = {} THEN StatRow(next_id, now, <<>>) ELSE CHOOSE r \in stats : TRUE
        meta == UpdatedMeta(row.meta, limits, now, status, tz_utc)
    IN  [stats |-> {StatRow(row.id, now, meta)},
         next_id |-> IF stats = {} THEN next_id + 1 ELSE next_id,
         read |-> row.meta,
         saved |-> meta]

\* A usage document of long use: 150 day keys and 30 month keys before the
\* current ones, the sizes at which the next new key starts the pruning
LongUsage(now) ==
    [total |-> DayKeysMax,
     by_day |-> [d \in (DayKey(now) - DayKeysMax) .. (DayKey(now) - 1) |-> 1],
     by_month |-> [m \in (MonthKey(now) - MonthKeysMax) .. (MonthKey(now) - 1) |-> 5],
     per_minute |-> <<[start |-> IsoUtc(now - SecondsPerDay), count |-> 1]>>,
     per_hour |-> <<[start |-> IsoUtc(now - SecondsPerDay), count |-> 1]>>,
     last_status |-> 200,
     last_at |-> now - SecondsPerDay]

\* The limits of the provider's config before its last edit
EarlierLimits == ConstDict({"per_hour"}, CapLimit)

\* The rows of the credential at the start: none (the row is created on
\* first use), the row of one use a second ago, the row of long use, or the
\* row of one use a second ago under the limits configured before
SendStats(limits, tz_utc) ==
    {{},
     {StatRow(1, CapNow - 1, UpdatedMeta(<<>>, limits, CapNow - 1, 200, tz_utc))},
     {StatRow(1, CapNow - SecondsPerDay, UsageMeta(LongUsage(CapNow)))},
     {StatRow(1, CapNow - 1, UpdatedMeta(<<>>, EarlierLimits, CapNow - 1, 200, tz_utc))}}

\* The specifications that call the adapter: calls of send_request with the
\* usage document under a moving clock, and calls of send_request and of
\* stream_to_bytes with their exchanges
SendComps == {"send", "retry"}

\* No call in progress; out is what the last call returned or raised, tried
\* how each HTTP exchange of that call ended
AdapterIdle == [pc |-> "idle", out |-> <<>>, tried |-> <<>>]

SendInit ==
    /\ comp = "send"
    /\ uLimits \in {<<>>, ConstDict({"per_minute", "per_day"}, CapLimit)}
    /\ uTzUtc \in BOOLEAN
    /\ uNow = CapNow
    /\ uTicks = 0
    /\ uStats \in SendStats(uLimits, uTzUtc)
    /\ uNextId = IF uStats = {} THEN 1 ELSE 2
    /\ uBase = IF uStats = {} THEN 0 ELSE (CHOOSE r \in uStats : TRUE).meta.usage.total
    /\ uWorker = <<>>
    /\ uStarted = 0 /\ uReturned = 0 /\ uRaised = 0
    /\ aCall = AdapterIdle
    /\ aSent = 0
    /\ aPrev = <<>>
    /\ GapIdle /\ SchedIdle /\ CapIdle /\ IngestIdle /\ DispIdle

SendFrame ==
    UNCHANGED <<comp, gapVars, schedVars, capVars, ingestVars, dispVars,
                uLimits, uTzUtc, uBase, uWorker, uRaised>>

\* The wall clock advances
SendTick ==
    /\ comp = "send"
    /\ uTicks < MaxSendTicks
    /\ \E d \in SendClockSteps : uNow' = uNow + d
    /\ uTicks' = uTicks + 1
    /\ UNCHANGED <<uStats, uNextId, uStarted, uReturned, aCall, aSent, aPrev>>
    /\ SendFrame

\* send_request is entered
SendBegin ==
    /\ comp \in SendComps
    /\ aCall.pc = "idle"
    /\ uStarted < MaxSends
    /\ aCall' = [pc |-> "request", out |-> <<>>, tried |-> <<>>]
    /\ uStarted' = uStarted + 1
    /\ UNCHANGED <<uStats, uNow, uTicks, uNextId, uReturned, aSent, aPrev>>
    /\ SendFrame

\* sess.request in the try block: a response goes on to the usage update,
\* requests.Timeout to the retry, any other exception leaves send_request
SendRequest ==
    /\ comp \in SendComps
    /\ aCall.pc = "request"
    /\ aSent' = aSent + 1
    /\ \E o \in HttpOutcomes :
          LET tried == Append(aCall.tried, o)
          IN  aCall' = CASE o.k = "ret" -> [pc |-> "update", status |-> o.v, tried |-> tried]
                         [] o = Raise("Timeout") -> [pc |-> "retry", out |-> <<>>, tried |-> tried]
                         [] OTHER -> [pc |-> "idle", out |-> <<o>>, tried |-> tried]
    /\ UNCHANGED <<uStats, uNow, uTicks, uNextId, uStarted, uReturned, aPrev>>
    /\ SendFrame

\* sess.request in the except block: a response goes on to the usage
\* update, every exception leaves send_request
SendRetry ==
    /\ comp \in SendComps
    /\ aCall.pc = "retry"
    /\ aSent' = aSent + 1
    /\ \E o \in HttpOutcomes :
          LET tried == Append(aCall.tried, o)
          IN  aCall' = IF o.k = "ret"
                       THEN [pc |-> "update", status |-> o.v, tried |-> tried]
                       ELSE [pc |-> "idle", out |-> <<o>>, tried |-> tried]
    /\ UNCHANGED <<uStats, uNow, uTicks, uNextId, uStarted, uReturned, aPrev>>
    /\ SendFrame

\* self.update_provider_token_stats(resp), resp.raise_for_status(), return
SendUpdate ==
    /\ comp \in SendComps
    /\ aCall.pc = "update"
    /\ LET upd == update_provider_token_stats(uStats, uNextId, uLimits, uNow,
                                              aCall.status, uTzUtc)
       IN  /\ uStats' = upd.stats
           /\ uNextId' = upd.next_id
           /\ aPrev' = <<[read |-> upd.read, saved |-> upd.saved, now |-> uNow]>>
    /\ aCall' = [pc |-> "idle", out |-> <<raise_for_status(aCall.status)>>,
                 tried |-> aCall.tried]
    /\ uReturned' = uReturned + 1
    /\ UNCHANGED <<uNow, uTicks, uStarted, aSent>>
    /\ SendFrame

SendNext ==
    \/ SendTick
    \/ SendBegin
    \/ SendRequest
    \/ SendRetry
    \/ SendUpdate

SpecSend == SendInit /\ [][SendNext]_vars

(***************************************************************************)
(* Properties of send_request and of the usage update                      *)
(***************************************************************************)
\* No call of send_request is in progress
SendQuiescent == comp = "send" /\ aCall.pc = "idle"

\* usage.total of the credential's document (0 without a row)
SendTotal == IF uStats = {} THEN 0 ELSE TotalOf(CHOOSE r \in uStats : TRUE)

(* C21: the credential's usage counter is incremented exactly once per HTTP
   exchange attempted by the adapter, retries and failed exchanges
   included: whenever send_request has returned or raised, usage.total has
   grown by the number of HTTP requests issued. *)
C21_OneIncrementPerExchange ==
    SendQuiescent => SendTotal - uBase = aSent

\* The usage read and the usage saved by the update applied last
PrevRead == IF "usage" \in DOMAIN aPrev[1].read THEN aPrev[1].read.usage ELSE EmptyUsage
PrevSaved == aPrev[1].saved.usage

\* A calendar dict after an update: the current key one up (1 when new),
\* every other key kept with its count, keys dropped only by a pruning
CalendarBumped(old, new, key, max) ==
    /\ key \in DOMAIN new
    /\ new[key] = Get(old, key, 0) + 1
    /\ \A k \in DOMAIN new \ {key} : k \in DOMAIN old /\ new[k] = old[k]
    /\ (DOMAIN old \ DOMAIN new # {}) => Cardinality(DOMAIN old \cup {key}) > max

(* C24: each usage update increases usage.total, usage.by_day[current day]
   and usage.by_month[current month] by exactly 1, creating the key at 1
   when absent, and leaves the counters of every other day and month key
   unchanged apart from pruning; after k updates applied in sequence to one
   document usage.total has grown by k. *)
C24_UpdateCountsOne ==
    (comp = "send" /\ aPrev # <<>>) =>
        /\ PrevSaved.total = PrevRead.total + 1
        /\ CalendarBumped(PrevRead.by_day, PrevSaved.by_day, DayKey(aPrev[1].now), DayKeysMax)
        /\ CalendarBumped(PrevRead.by_month, PrevSaved.by_month, MonthKey(aPrev[1].now),
                          MonthKeysMax)
        /\ SendTotal = uBase + uReturned

\* Two updates of a new document on two days: the second creates its day key
\* at 1 beside the key of the first
C24_Witness ==
    /\ comp = "send" /\ uBase = 0 /\ uReturned = 2 /\ SendTotal = 2
    /\ aPrev # <<>>
    /\ DayKey(aPrev[1].now) \notin DOMAIN PrevRead.by_day
    /\ Cardinality(DOMAIN PrevSaved.by_day) = 2
    /\ PrevSaved.by_day[DayKey(aPrev[1].now)] = 1

\* An update of a document of long use whose new day key starts the pruning
PrunedOnce ==
    /\ comp = "send" /\ aPrev # <<>>
    /\ Cardinality(DOMAIN PrevRead.by_day) = DayKeysMax
    /\ Cardinality(DOMAIN PrevSaved.by_day) = DayKeysKept

\* The instant a stored window started at
WindowStart(win) == win.start.wall - win.start.off[1]

\* A sliding window after an update: restarted at now with count 1 when it
\* was absent or as old as its duration, else one up with its start kept
WindowBumped(old, new, now, seconds) ==
    IF old = <<>> \/ now - WindowStart(old[1]) >= seconds
    THEN new = <<[start |-> IsoUtc(now), count |-> 1]>>
    ELSE new = <<[start |-> old[1].start, count |-> old[1].count + 1]>>

(* C25: each usage update treats each sliding window (per_minute of 60 s,
   per_hour of 3600 s) so: if the window is absent or now - start >= its
   duration the window becomes {start: now, count: 1}, otherwise its count
   grows by exactly 1 and its start is unchanged. *)
C25_WindowRestartsOrCounts ==
    (comp = "send" /\ aPrev # <<>>) =>
        /\ WindowBumped(PrevRead.per_minute, PrevSaved.per_minute, aPrev[1].now, 60)
        /\ WindowBumped(PrevRead.per_hour, PrevSaved.per_hour, aPrev[1].now, 3600)

\* An update exactly one minute after the one that opened both windows: the
\* minute window restarts, the hour window counts on
C25_Witness ==
    /\ comp = "send" /\ aPrev # <<>>
    /\ PrevRead.per_minute # <<>>
    /\ aPrev[1].now - WindowStart(PrevRead.per_minute[1]) = 60
    /\ PrevSaved.per_minute = <<[start |-> IsoUtc(aPrev[1].now), count |-> 1]>>
    /\ PrevSaved.per_hour[1].count = 2

(***************************************************************************)
(* DataNormalizer (weathers/lib/data_normalizer.py), the parameter catalog *)
(* (weathers/lib/param_catalog.py), DataProcessEngine.process and          *)
(* _save_narrow (weathers/weather_processing/data_processing_engine.py),   *)
(* WeatherData (weathers/models.py)                                        *)
(***************************************************************************)
\* OPEN_METEO_PARAM_CATALOG, canonical name -> Open-Meteo name: the time
\* entry, two one-to-one entries, and the two canonical names that share one
\* Open-Meteo name
Catalog ==
    ("date_time" :> "time")
        @@ ("temperature" :> "temperature_2m")
        @@ ("precipitation" :> "precipitation")
        @@ ("et0_fao_evapotranspiration" :> "et0_fao_evapotranspiration")
        @@ ("et0_fao_evapotranspiration_sum" :> "et0_fao_evapotranspiration")

\* DataNormalizer.normalize("open_meteo", payload): the canonical keys whose
\* source key the payload holds
normalize(payload) ==
    [c \in {x \in DOMAIN Catalog : Catalog[x] \in DOMAIN payload} |-> payload[Catalog[c]]]

\* The row open_meteo_standardize builds for index idx before normalizing:
\* "time" and every parameter whose array reaches idx. A block is
\* [time |-> Optional list, cols |-> name -> list].
RawRow(block, idx) ==
    [n \in {"time"} \cup {x \in DOMAIN block.cols : idx <= Len(block.cols[x])} |->
        IF n = "time" THEN block.time[1][idx] ELSE block.cols[n][idx]]

\* open_meteo_standardize(payload, sections = (granularity,)) for the one
\* section asked for; section is payload.get(section) as an Optional block
\* (<<>> when the section is missing or empty). The result is the
\* standardized dict's entry: absent, or the rows; or the ValueError.
open_meteo_standardize_Lenient(section) ==
    IF section = <<>> \/ section[1].time = <<>>
    THEN [k |-> "absent"]
    ELSE [k |-> "rows",
          rows |-> [idx \in 1 .. Len(section[1].time[1]) |-> normalize(RawRow(section[1], idx))]]

open_meteo_standardize_Strict(section) ==
    IF section = <<>> \/ section[1].time = <<>> \/ section[1].time[1] = <<>>
    THEN Raise("ValueError")
    ELSE [k |-> "rows",
          rows |-> [idx \in 1 .. Len(section[1].time[1]) |-> normalize(RawRow(section[1], idx))]]

open_meteo_standardize(section) ==
    IF section = <<>>
    THEN [k |-> "absent"]
    ELSE IF section[1].time = <<>>
         THEN Raise("ValueError")
         ELSE [k |-> "rows",
               rows |-> [idx \in 1 .. Len(section[1].time[1]) |-> normalize(RawRow(section[1], idx))]]

\* _parse_iso_utc of the engine, on the values a row holds: None, an ISO
\* string (naive strings are taken as UTC), a string no format accepts
_parse_iso_utc(v) ==
    IF v.k = "iso"
    THEN IF v.off = <<>> THEN <<v.wall>> ELSE <<v.wall - v.off[1]>>
    ELSE <<>>

NoneValue == [k |-> "none"]

\* The key _span reads the timestamp of a row from
SpanKey == "time"

\* The key _save_narrow reads the timestamp of a row from
RowTimeKey == "date_time"

SetMin(S) == CHOOSE x \in S : \A y \in S : x <= y
SetMax(S) == CHOOSE x \in S : \A y \in S : y <= x

\* _span(rows): (None, None), or (min, max) of the timestamps that parse
_span(rows) ==
    LET times == {_parse_iso_utc(Get(rows[i], SpanKey, NoneValue))[1] :
                     i \in {j \in DOMAIN rows : _parse_iso_utc(Get(rows[j], SpanKey, NoneValue)) # <<>>}}
    IN  IF times = {}
        THEN [t_min |-> <<>>, t_max |-> <<>>]
        ELSE [t_min |-> <<SetMin(times)>>, t_max |-> <<SetMax(times)>>]

\* WeatherData.DataType of a plan in a mode
DataType(mode, granularity) ==
    CASE mode = "forecast" /\ granularity = "hourly" -> "forecast_hourly"
      [] mode = "forecast" /\ granularity = "daily" -> "forecast_daily"
      [] mode = "forecast" /\ granularity = "minutely_15" -> "forecast_15m"
      [] mode = "history" /\ granularity = "hourly" -> "history_hourly"
      [] mode = "history" /\ granularity = "daily" -> "history_daily"
      [] mode = "history" /\ granularity = "minutely_15" -> "history_15m"

\* A set as a list, in some fixed order
RECURSIVE SetToSeq(_)
SetToSeq(S) == IF S = {} THEN <<>> ELSE LET x == CHOOSE y \in S : TRUE IN <<x>> \o SetToSeq(S \ {x})

\* The objects one row yields: one per key other than date_time whose value
\* is not None; nothing when the row's date_time does not parse
RowObjs(r, point, data_type) ==
    LET ts == _parse_iso_utc(Get(r, RowTimeKey, NoneValue))
    IN  IF ts = <<>>
        THEN <<>>
        ELSE LET keys == SetToSeq({k \in DOMAIN r : k # RowTimeKey /\ r[k] # <<>>})
             IN  [i \in DOMAIN keys |->
                     [meteo_point |-> point, parameter |-> keys[i], timestamp_utc |-> ts[1],
                      value |-> r[keys[i]][1], data_type |-> data_type]]

\* objs of _save_narrow: the objects of all rows, in row order
RECURSIVE BuildObjs(_, _, _, _)
BuildObjs(rows, i, point, data_type) ==
    IF i > Len(rows)
    THEN <<>>
    ELSE RowObjs(rows[i], point, data_type) \o BuildObjs(rows, i + 1, point, data_type)

\* The rows the overwrite delete's filter selects
DeleteFilter(rows, point, data_type, t_min, t_max) ==
    {r \in rows : /\ r.meteo_point = point
                  /\ r.data_type = data_type
                  /\ r.timestamp_utc >= t_min
                  /\ r.timestamp_utc <= t_max}

\* bulk_create: the objects become rows with fresh primary keys
Inserted(objs, next_id) ==
    {[id |-> next_id + i - 1, meteo_point |-> objs[i].meteo_point,
      parameter |-> objs[i].parameter, timestamp_utc |-> objs[i].timestamp_utc,
      value |-> objs[i].value, data_type |-> objs[i].data_type] : i \in DOMAIN objs}

\* Bounds of the ingestion runs
MaxEngines == 2
MaxIngestWorkers == 1

IngestWorkers == 1 .. MaxIngestWorkers

Points == {1, 2}

\* The engines constructed: forecast jobs take one section, history jobs the
\* two sections hourly and daily
EngineInputs ==
    [point : Points, overwrite : BOOLEAN,
     plan : {[mode |-> "forecast", sections |-> <<"hourly">>],
             [mode |-> "forecast", sections |-> <<"daily">>],
             [mode |-> "history", sections |-> <<"hourly", "daily">>]}]

\* Three consecutive hours of the provider's time axis
Hour(n) == CapNow + n * SecondsPerHour

IsoNaive(t) == [k |-> "iso", wall |-> t, off |-> <<>>]

\* The sections a provider response can hold for the granularity asked for
BlockFirstHours ==
    [time |-> << <<IsoNaive(Hour(0)), IsoNaive(Hour(1))>> >>,
     cols |-> ("temperature_2m" :> << <<10>>, <<11>> >>)
                @@ ("precipitation" :> << <<>>, <<0>> >>)]

BlockLaterHours ==
    [time |-> << <<IsoNaive(Hour(1)), IsoNaive(Hour(2))>> >>,
     cols |-> ("temperature_2m" :> << <<20>>, <<21>> >>)]

\* a parameter the catalog does not know, a short array, a shared source name
BlockRagged ==
    [time |-> << <<IsoNaive(Hour(0)), IsoNaive(Hour(1))>> >>,
     cols |-> ("soil_ph" :> << <<7>>, <<7>> >>)
                @@ ("temperature_2m" :> << <<12>> >>)
                @@ ("et0_fao_evapotranspiration" :> << <<3>>, <<>> >>)]

BlockBadTime ==
    [time |-> << <<[k |-> "garbled"], IsoNaive(Hour(2))>> >>,
     cols |-> ("temperature_2m" :> << <<30>>, <<31>> >>)]

BlockNoTimes == [time |-> << <<>> >>, cols |-> ("temperature_2m" :> <<>>)]

BlockWithoutTime == [time |-> <<>>, cols |-> ("temperature_2m" :> << <<10>> >>)]

SectionInputs ==
    {<<>>} \cup {<<b>> : b \in {BlockFirstHours, BlockLaterHours, BlockRagged,
                               BlockBadTime, BlockNoTimes, BlockWithoutTime}}

\* What the adapter call of _fetch gives: a response, or an error
FetchOutcomes == {[k |-> "ok", section |-> sec] : sec \in SectionInputs} \cup {[k |-> "error"]}

IngWorkerIdle == [pc |-> "idle"]

\* The specifications that run process(): jobs one after the other on a
\* store that starts empty, one job on a store that holds rows, and two jobs
\* of two worker processes at the same time
IngestComps == {"ingest", "save", "race"}

\* A worker whose job an exception ended: the exception, what _fetch had
\* returned, and the plan it was in
IngFailed(me, raw, exc) ==
    [pc |-> "idle", raised |-> exc, raw |-> raw, engine |-> me.engine, idx |-> me.idx]

\* A row without its primary key, and a store as the bag of these
Content(r) ==
    [meteo_point |-> r.meteo_point, parameter |-> r.parameter,
     timestamp_utc |-> r.timestamp_utc, value |-> r.value, data_type |-> r.data_type]

ContentBag(rows) ==
    [c \in {Content(r) : r \in rows} |-> Cardinality({r \in rows : Content(r) = c})]

IngestInit ==
    /\ comp = "ingest"
    /\ store = {}
    /\ iNextId = 1
    /\ iWorker = [w \in IngestWorkers |-> IngWorkerIdle]
    /\ iJobs = 0
    /\ iLog = <<>>
    /\ GapIdle /\ SchedIdle /\ CapIdle /\ UsageIdle /\ DispIdle /\ SendIdle

IngestFrame == UNCHANGED <<comp, gapVars, schedVars, capVars, usageVars, dispVars, sendVars>>

\* process() is entered on an engine object with its fields set (point, mode,
\* plans of the sections, overwrite): the loop over self.plans starts. How
\* __init__ comes to such an object is not part of this specification.
IngBegin(w) ==
    /\ comp = "ingest"
    /\ iWorker[w].pc = "idle"
    /\ iJobs < MaxEngines
    /\ \E e \in EngineInputs :
          iWorker' = [iWorker EXCEPT ![w] =
              [pc |-> "fetch", engine |-> e, idx |-> 1, summary |-> <<>>]]
    /\ iJobs' = iJobs + 1
    /\ UNCHANGED <<store, iNextId, iLog>>
    /\ IngestFrame

\* The step to the next plan of the loop, or the return of process()
AfterPlan(me, count) ==
    IF me.idx < Len(me.engine.plan.sections)
    THEN [pc |-> "fetch", engine |-> me.engine, idx |-> me.idx + 1,
          summary |-> Append(me.summary, count)]
    ELSE IngWorkerIdle

LogEntry(me, section, inserted, rows) ==
    [point |-> me.engine.point, mode |-> me.engine.plan.mode,
     granularity |-> me.engine.plan.sections[me.idx], overwrite |-> me.engine.overwrite,
     section |-> section, inserted |-> inserted, after |-> ContentBag(rows)]

\* raw = self._fetch(plan); std = self._standardize(raw, plan.granularity),
\* and the head of _save_narrow: no rows, return 0. An exception of the
\* adapter or of the normalizer leaves process().
IngFetch(w) ==
    /\ comp \in IngestComps
    /\ iWorker[w].pc = "fetch"
    /\ \E raw \in FetchOutcomes :
          LET me == iWorker[w]
              std == IF raw.k = "ok" THEN open_meteo_standardize(raw.section) ELSE Raise("adapter")
          IN  IF std.k = "raise"
              THEN /\ iWorker' = [iWorker EXCEPT ![w] = IngFailed(me, raw, std.exc)]
                   /\ UNCHANGED iLog
              ELSE IF std.k = "absent" \/ std.rows = <<>>
                   THEN /\ iWorker' = [iWorker EXCEPT ![w] = AfterPlan(me, 0)]
                        /\ iLog' = Append(iLog, LogEntry(me, raw.section, 0, store))
                   ELSE /\ iWorker' = [iWorker EXCEPT ![w] =
                               [pc |-> "delete", engine |-> me.engine, idx |-> me.idx,
                                summary |-> me.summary, section |-> raw.section,
                                rows |-> std.rows]]
                        /\ UNCHANGED iLog
    /\ UNCHANGED <<store, iNextId, iJobs>>
    /\ IngestFrame

\* t_min, t_max = _span(rows), and the first atomic block: with overwrite and
\* a span, the rows the filter selects are deleted and the delete commits
IngDelete(w) ==
    /\ comp \in IngestComps
    /\ iWorker[w].pc = "delete"
    /\ LET me == iWorker[w]
           span == _span(me.rows)
           data_type == DataType(me.engine.plan.mode, me.engine.plan.sections[me.idx])
       IN  store' = IF me.engine.overwrite /\ span.t_min # <<>> /\ span.t_max # <<>>
                    THEN store \ DeleteFilter(store, me.engine.point, data_type,
                                              span.t_min[1], span.t_max[1])
                    ELSE store
    /\ iWorker' = [iWorker EXCEPT ![w].pc = "insert"]
    /\ UNCHANGED <<iNextId, iJobs, iLog>>
    /\ IngestFrame

\* The objects are built and the second atomic block bulk-creates them, all
\* chunks in one transaction; _save_narrow returns their number
IngInsert(w) ==
    /\ comp \in IngestComps
    /\ iWorker[w].pc = "insert"
    /\ LET me == iWorker[w]
           data_type == DataType(me.engine.plan.mode, me.engine.plan.sections[me.idx])
           objs == BuildObjs(me.rows, 1, me.engine.point, data_type)
           after == store \cup Inserted(objs, iNextId)
       IN  /\ store' = after
           /\ iNextId' = iNextId + Len(objs)
           /\ iWorker' = [iWorker EXCEPT ![w] = AfterPlan(me, Len(objs))]
           /\ iLog' = Append(iLog, LogEntry(me, me.section, Len(objs), after))
    /\ UNCHANGED iJobs
    /\ IngestFrame

\* The worker process dies, or the database connection is lost, inside
\* process(): what is committed stays, the rest of the job is not run
IngCrash(w) ==
    /\ comp \in IngestComps
    /\ iWorker[w].pc \in {"fetch", "delete", "insert"}
    /\ iWorker' = [iWorker EXCEPT ![w] = IngWorkerIdle]
    /\ UNCHANGED <<store, iNextId, iJobs, iLog>>
    /\ IngestFrame

IngestNext ==
    \/ \E w \in IngestWorkers : IngBegin(w)
    \/ \E w \in IngestWorkers : IngFetch(w)
    \/ \E w \in IngestWorkers : IngDelete(w)
    \/ \E w \in IngestWorkers : IngInsert(w)
    \/ \E w \in IngestWorkers : IngCrash(w)

SpecIngest == IngestInit /\ [][IngestNext]_vars

\* A stored row of the temperature series
StoredRow(id, point, data_type, hour) ==
    [id |-> id, meteo_point |-> point, parameter |-> "temperature",
     timestamp_utc |-> Hour(hour), value |-> 5, data_type |-> data_type]

\* The store a single job meets: empty, or rows of the series the job may
\* write (inside and outside the hours a payload covers), of the same series
\* of the other point and of the other mode
SaveStores ==
    {{},
     {StoredRow(1, 1, "forecast_hourly", 0), StoredRow(2, 1, "forecast_hourly", 1),
      StoredRow(3, 1, "forecast_hourly", 5), StoredRow(4, 2, "forecast_hourly", 1),
      StoredRow(5, 1, "history_hourly", 1), StoredRow(6, 1, "forecast_daily", 1)}}

SaveInit ==
    /\ comp = "save"
    /\ store \in SaveStores
    /\ iNextId = Cardinality(store) + 1
    /\ iWorker = [w \in IngestWorkers |-> IngWorkerIdle]
    /\ iJobs = 0
    /\ iLog = <<>>
    /\ GapIdle /\ SchedIdle /\ CapIdle /\ UsageIdle /\ DispIdle /\ SendIdle

\* process() is entered on an engine object, once
SaveBegin(w) ==
    /\ comp = "save"
    /\ iWorker[w].pc = "idle"
    /\ iJobs = 0
    /\ \E e \in EngineInputs :
          iWorker' = [iWorker EXCEPT ![w] =
              [pc |-> "fetch", engine |-> e, idx |-> 1, summary |-> <<>>]]
    /\ iJobs' = iJobs + 1
    /\ UNCHANGED <<store, iNextId, iLog>>
    /\ IngestFrame

SaveNext ==
    \/ \E w \in IngestWorkers : SaveBegin(w)
    \/ \E w \in IngestWorkers : IngFetch(w)
    \/ \E w \in IngestWorkers : IngDelete(w)
    \/ \E w \in IngestWorkers : IngInsert(w)
    \/ \E w \in IngestWorkers : IngCrash(w)

SpecSave == SaveInit /\ [][SaveNext]_vars

(***************************************************************************)
(* Properties of the overwrite-by-range save                               *)
(***************************************************************************)
\* Two _save_narrow calls were given the same payload section for the same
\* point, mode and granularity
SameIngestion(a, b) ==
    /\ a.point = b.point /\ a.mode = b.mode /\ a.granularity = b.granularity
    /\ a.section = b.section

(* C2: ingesting the same provider payload twice for the same point, mode
   and granularity with overwrite enabled leaves the store with the same
   rows, in kind and number, as ingesting it once. *)
C2_ReingestIsIdempotent ==
    comp = "ingest" =>
        \A i \in DOMAIN iLog :
            (i > 1 /\ SameIngestion(iLog[i - 1], iLog[i])
                /\ iLog[i - 1].overwrite /\ iLog[i].overwrite)
                => iLog[i].after = iLog[i - 1].after

(* C3: after any sequence of overwrite-enabled ingestion jobs run one at a
   time the store holds at most one row per (point, parameter, data_type,
   timestamp). *)
C3_OneRowPerSeriesTimestamp ==
    (comp = "ingest" /\ \A i \in DOMAIN iLog : iLog[i].overwrite) =>
        \A r1, r2 \in store :
            (/\ r1.meteo_point = r2.meteo_point /\ r1.parameter = r2.parameter
             /\ r1.data_type = r2.data_type /\ r1.timestamp_utc = r2.timestamp_utc)
                => r1.id = r2.id

\* The span [min, max] of the timestamps of a set of rows covers a row
InSpanOf(rows, r) ==
    /\ rows # {}
    /\ r.timestamp_utc >= SetMin({x.timestamp_utc : x \in rows})
    /\ r.timestamp_utc <= SetMax({x.timestamp_utc : x \in rows})

(* C4: in the overwrite save the range delete and the bulk insert are one
   atomic unit: a commit that adds a job's rows to the store is the commit
   that removes the stored rows of the job's point and data_type in the
   span the job's rows cover, and a commit that removes rows adds the
   job's rows; no committed state has the one without the other. *)
C4_DeleteAndInsertAreOneUnit ==
    [][\A w \in IngestWorkers :
          (comp = "ingest" /\ iWorker[w].pc \in {"delete", "insert"}
              /\ iWorker[w].engine.overwrite /\ store' # store)
          => LET added == store' \ store
                 removed == store \ store'
                 me == iWorker[w]
                 data_type == DataType(me.engine.plan.mode, me.engine.plan.sections[me.idx])
             IN  /\ added # {}
                 /\ removed = {r \in store : /\ r.meteo_point = me.engine.point
                                             /\ r.data_type = data_type
                                             /\ InSpanOf(added, r)}]_vars

(***************************************************************************)
(* task_auto_start_meteo_data_process and its credential selection         *)
(* (celery_app/tasks/weather.py), Provider, ProviderToken, MeteoPoint,     *)
(* MeteoPointProvider (weathers/models.py)                                 *)
(***************************************************************************)
\* Bounds of the dispatch cycles
MaxCycles == 2
MaxDispTicks == 1

ProviderIds == {1, 2}
TokenIds == {1, 2, 3}
PointIds == {1, 2}
LinkIds == {1, 2}

\* The results a query without order_by can give for a set of rows: the
\* database returns them in an unspecified order
Orders(S) == {q \in [1 .. Cardinality(S) -> S] : Range(q) = S}

\* f"{mode}_{bucket}"
StatusKey(mode, bucket) ==
    CASE mode = "forecast" /\ bucket = "hourly" -> "forecast_hourly"
      [] mode = "forecast" /\ bucket = "daily" -> "forecast_daily"

\* ((link.status or {}).get(key, {}) or {}) by its shape
StatusEntry(status, key) == IF key \in DOMAIN status THEN status[key] ELSE [k |-> "absent"]

\* The for loop of get_available_token_with_capacity over tokens[i ..]
RECURSIVE FirstWithCapacity(_, _, _, _, _)
FirstWithCapacity(tokens, i, conf, limits, now) ==
    IF i > Len(tokens)
    THEN [has_capacity |-> FALSE, token_id |-> <<>>]
    ELSE IF token_has_capacity(limits, conf.tokens[tokens[i]].stats, now).has
         THEN [has_capacity |-> TRUE, token_id |-> <<tokens[i]>>]
         ELSE FirstWithCapacity(tokens, i + 1, conf, limits, now)

\* The initial answer of get_available_token_with_capacity, kept when the
\* provider has no active token
NoTokens_Busy == [has_capacity |-> FALSE, token_id |-> <<>>]

NoTokens == [has_capacity |-> TRUE, token_id |-> <<>>]

\* provider.tokens.filter(is_active=True), as a set of ids
ActiveTokens(conf, provider) ==
    {t \in DOMAIN conf.tokens : conf.tokens[t].provider = provider /\ conf.tokens[t].is_active}

\* get_available_token_with_capacity(provider): tokens is the list the query
\* returned
get_available_token_with_capacity(conf, provider, tokens, now) ==
    IF tokens = <<>>
    THEN NoTokens
    ELSE FirstWithCapacity(tokens, 1, conf, conf.providers[provider].limits, now)

\* The filter of meteo_point_providers
Dispatchable_LinkFlagOnly(conf, l) == conf.links[l].is_active

Dispatchable(conf, l) ==
    /\ conf.links[l].is_active
    /\ conf.providers[conf.links[l].provider].is_active
    /\ conf.points[conf.links[l].meteo_point].is_active

DispatchableLinks(conf) == {l \in DOMAIN conf.links : Dispatchable(conf, l)}

\* The buckets of the forecast pass, in the order of the loop
ForecastBuckets == <<"hourly", "daily">>

\* A job as apply_async emits it, with what the worker made of it once run
Job(kind, link, bucket, token_id, n, now) ==
    [kind |-> kind, link |-> link, bucket |-> bucket, token_id |-> token_id,
     cycle |-> n, at |-> now, out |-> <<>>]

\* The loop over the buckets from the i-th on, for a link that has capacity:
\* the jobs emitted, and whether should_run raised
RECURSIVE BucketLoop(_, _, _, _, _, _)
BucketLoop(i, conf, l, token_id, n, now) ==
    IF i > Len(ForecastBuckets)
    THEN [jobs |-> <<>>, raised |-> FALSE]
    ELSE LET bucket == ForecastBuckets[i]
             period_iso == conf.providers[conf.links[l].provider].periods[bucket]
             rest == BucketLoop(i + 1, conf, l, token_id, n, now)
         IN  IF period_iso = <<>> \/ period_iso[1] = <<>>
             THEN rest
             ELSE LET due == should_run(StatusEntry(conf.links[l].status,
                                                    StatusKey("forecast", bucket)),
                                        period_iso, now)
                  IN  IF due.k = "raise"
                      THEN [jobs |-> <<>>, raised |-> TRUE]
                      ELSE IF ~due.v
                           THEN rest
                           ELSE [jobs |-> <<Job("forecast", l, <<bucket>>, token_id, n, now)>>
                                              \o rest.jobs,
                                 raised |-> rest.raised]

\* The usage of a credential that has made count requests today
DayUsage(count) ==
    [total |-> count, per_minute |-> <<>>, per_hour |-> <<>>,
     by_day |-> [k \in {DayKey(CapNow)} |-> count],
     by_month |-> [k \in {MonthKey(CapNow)} |-> count]]

\* A credential that is at its per_day limit today (and this month)
DayExhausted == DayUsage(CapLimit)

\* The stat rows of a credential: none before its first use
TokenStats(t, count) ==
    IF count = 0 THEN {} ELSE {StatRow(t, CapNow - 1, UsageMeta(DayUsage(count)))}

Iso15M == <<"P", "T", "1", "5", "M">>
Iso1D == <<"P", "1", "D">>

\* link.status of the first link: empty, a last_update ten minutes before the
\* first cycle, or an entry that is a string
StatusInputs ==
    {<<>>,
     "forecast_hourly" :> [k |-> "map", last_update |-> IsoUtc(CapNow - 10 * SecondsPerMinute)],
     "forecast_hourly" :> [k |-> "scalar"]}

\* The database: provider 1 with credentials 1 and 2 and the point 1 linked
\* to it, provider 2 with credential 3 and the point 2 linked to it; of the
\* first link, its provider and its point at most one is switched off
DispConfs ==
    {[providers |->
          (1 :> [is_active |-> off # "provider", limits |-> lim,
                 periods |-> [hourly |-> <<Iso15M>>, daily |-> daily]])
          @@ (2 :> [is_active |-> TRUE, limits |-> <<>>,
                    periods |-> [hourly |-> <<Iso15M>>, daily |-> <<>>]]),
      tokens |->
          (1 :> [provider |-> 1, is_active |-> TRUE, stats |-> TokenStats(1, used)])
          @@ (2 :> [provider |-> 1, is_active |-> t2, stats |-> TokenStats(2, 0)])
          @@ (3 :> [provider |-> 2, is_active |-> t3, stats |-> TokenStats(3, 0)]),
      points |-> (1 :> [is_active |-> off # "point"]) @@ (2 :> [is_active |-> TRUE]),
      links |->
          (1 :> [is_active |-> off # "link", provider |-> 1, meteo_point |-> 1, status |-> st])
          @@ (2 :> [is_active |-> TRUE, provider |-> 2, meteo_point |-> 2, status |-> <<>>])] :
        off \in {"none", "link", "provider", "point"}, t2 \in BOOLEAN, t3 \in BOOLEAN,
        used \in {0, CapLimit - 1, CapLimit}, lim \in {<<>>, ConstDict({"per_day"}, CapLimit)},
        daily \in {<<>>, <<Iso1D>>}, st \in StatusInputs}

\* The step of the clock between two tasks of the worker
DispClockSteps == {5 * SecondsPerMinute}

CycleIdle == [pc |-> "idle", n |-> 0]

\* The stored rows: for the first point one day of this year with a history
\* row and the day after with a forecast row only, none for the second
DispStores ==
    {{[id |-> 1, meteo_point |-> 1, parameter |-> "temperature",
       timestamp_utc |-> 58 * SecondsPerDay + Noon, value |-> 10,
       data_type |-> "history_hourly"],
      [id |-> 2, meteo_point |-> 1, parameter |-> "temperature",
       timestamp_utc |-> 59 * SecondsPerDay + Noon, value |-> 12,
       data_type |-> "forecast_hourly"]}}

\* The keyword parameters DataProcessEngine.__init__ accepts
EngineInitParams ==
    {"meteo_point_provider", "mode", "normalizer", "sections", "date_from", "date_to",
     "overwrite", "save_batch"}

\* The parameters OpenMeteoInterface.__init__ requires, and the ones the
\* engine passes to it
AdapterInitRequired == {"provider", "provider_token"}
AdapterInitGiven == {"provider"}

\* The keyword arguments the two tasks construct the engine with
TaskEngineKwargs(kind) ==
    IF kind = "forecast"
    THEN {"meteo_point_provider", "provider_token", "mode", "sections"}
    ELSE {"meteo_point_provider", "provider_token", "mode", "sections", "date_from", "date_to"}

\* OpenMeteoInterface(provider=self.provider): a call that lacks a required
\* argument raises TypeError
OpenMeteoInterface_init(given) ==
    IF AdapterInitRequired \subseteq given THEN Ret("adapter") ELSE Raise("TypeError")

\* DataProcessEngine(**kwargs): an unexpected keyword raises TypeError, and
\* so does the construction of the adapter
DataProcessEngine_init(kwargs) ==
    IF ~(kwargs \subseteq EngineInitParams)
    THEN Raise("TypeError")
    ELSE OpenMeteoInterface_init(AdapterInitGiven)

\* ProviderToken.objects.get(id=token_id): an Optional id; None matches no row
ProviderToken_get(conf, token_id) ==
    IF token_id # <<>> /\ token_id[1] \in DOMAIN conf.tokens
    THEN Ret(token_id[1])
    ELSE Raise("DoesNotExist")

\* What a worker reports of a job: how the task ended, the gap ranges it
\* detected (history, once detection has run), the ranges it began to
\* ingest, the ranges whose process() returned, and the credential the
\* engine's adapter was built with
JobOut(end, detected, loop, adapter_token, now) ==
    [end |-> end, detected |-> detected, attempted |-> loop.attempted,
     ingested |-> loop.ingested, adapter_token |-> adapter_token, at |-> now]

NoLoop == [attempted |-> <<>>, ingested |-> <<>>]

\* task_parse_provider_meteo_forecast_data(meteo_point_provider_id, bucket,
\* provider_token_id)
forecast_task(conf, job, now) ==
    LET provider_token == ProviderToken_get(conf, job.token_id)
    IN  IF provider_token.k = "raise"
        THEN JobOut(provider_token, <<>>, NoLoop, <<>>, now)
        ELSE LET engine == DataProcessEngine_init(TaskEngineKwargs("forecast"))
             IN  IF engine.k = "raise"
                 THEN JobOut(engine, <<>>, NoLoop, <<>>, now)
                 ELSE JobOut(Ret("processed"), <<>>, NoLoop, <<provider_token.v>>, now)

\* The fields of WeatherData a filter can name, and the ones the history task
\* names
WeatherDataFields ==
    {"id", "meteo_point", "parameter", "timestamp_utc", "value", "data_type", "created_at"}
HistoryFilterFields == {"meteo_point_provider", "timestamp_utc"}

\* datetime(now.year, 1, 1)
YearStart(now) == (DateOf(now) \div 365) * 365 * SecondsPerDay

\* The loop over missing_dates from the i-th range on: the ranges begun and
\* the ranges ingested up to the first exception, and that exception if any
RECURSIVE HistoryLoop(_, _, _)
HistoryLoop(missing_dates, i, done) ==
    IF i > Len(missing_dates)
    THEN [end |-> Ret("processed"), attempted |-> done, ingested |-> done]
    ELSE LET engine == DataProcessEngine_init(TaskEngineKwargs("history"))
         IN  IF engine.k = "raise"
             THEN [end |-> engine, attempted |-> Append(done, missing_dates[i]),
                   ingested |-> done]
             ELSE HistoryLoop(missing_dates, i + 1, Append(done, missing_dates[i]))

\* task_parse_provider_meteo_history_data(meteo_point_provider_id,
\* provider_token_id); rows are the stored WeatherData rows
history_task(conf, job, rows, now) ==
    LET provider_token == ProviderToken_get(conf, job.token_id)
    IN  IF provider_token.k = "raise"
        THEN JobOut(provider_token, <<>>, NoLoop, <<>>, now)
        ELSE IF ~(HistoryFilterFields \subseteq WeatherDataFields)
             THEN JobOut(Raise("FieldError"), <<>>, NoLoop, <<>>, now)
             ELSE LET qs == {r.timestamp_utc :
                               r \in {x \in rows : x.meteo_point = conf.links[job.link].meteo_point}}
                      missing_dates == missing_date_ranges(qs, <<YearStart(now)>>, <<now>>, DefaultMaxDays)
                      loop == HistoryLoop(missing_dates, 1, <<>>)
                  IN  JobOut(loop.end, <<missing_dates>>, loop,
                             IF loop.end.k = "ret" THEN <<provider_token.v>> ELSE <<>>, now)

DispInit ==
    /\ comp = "dispatch"
    /\ dConf \in DispConfs
    /\ dNow = CapNow
    /\ dCycle = CycleIdle
    /\ dJobs = <<>>
    /\ dRun = 0
    /\ dTicks = 0
    /\ store \in DispStores
    /\ iNextId = 1 /\ iWorker = <<>> /\ iJobs = 0 /\ iLog = <<>>
    /\ GapIdle /\ SchedIdle /\ CapIdle /\ UsageIdle /\ SendIdle

DispFrame == UNCHANGED <<comp, gapVars, schedVars, capVars, usageVars, ingestVars, sendVars, dConf>>

\* The wall clock advances; the worker process is idle, its queue empty
DispTick ==
    /\ comp = "dispatch"
    /\ dCycle.pc = "idle"
    /\ dRun = Len(dJobs)
    /\ dTicks < MaxDispTicks
    /\ \E step \in DispClockSteps : dNow' = dNow + step
    /\ dTicks' = dTicks + 1
    /\ UNCHANGED <<dCycle, dJobs, dRun>>
    /\ DispFrame

\* The beat's task reaches the head of the worker's queue, behind the jobs
\* of the cycle before: now is read, and the first iterator() runs the query
\* of the links
CycleStart ==
    /\ comp = "dispatch"
    /\ dCycle.pc = "idle"
    /\ dRun = Len(dJobs)
    /\ dCycle.n < MaxCycles
    /\ \E links \in Orders(DispatchableLinks(dConf)) :
          dCycle' = [pc |-> "forecast", n |-> dCycle.n + 1, now |-> dNow, links |-> links,
                     pos |-> 1, checked |-> {}, passed |-> {}, revisited |-> {},
                     picks |-> {}, raised |-> FALSE]
    /\ dJobs' = SelectSeq(dJobs, LAMBDA j : j.cycle = dCycle.n)
    /\ dRun' = Len(dJobs')
    /\ UNCHANGED <<dNow, dTicks>>
    /\ DispFrame

\* One iteration of the first loop: the capacity check of the link's
\* provider, then the buckets. An exception leaves the task.
ForecastLink ==
    /\ comp = "dispatch"
    /\ dCycle.pc = "forecast"
    /\ dCycle.pos <= Len(dCycle.links)
    /\ LET l == dCycle.links[dCycle.pos]
           provider == dConf.links[l].provider
       IN  \E tokens \in Orders(ActiveTokens(dConf, provider)) :
              LET sel == get_available_token_with_capacity(dConf, provider, tokens, dCycle.now)
                  loop == IF sel.has_capacity
                          THEN BucketLoop(1, dConf, l, sel.token_id, dCycle.n, dCycle.now)
                          ELSE [jobs |-> <<>>, raised |-> FALSE]
                  seen == [dCycle EXCEPT
                              !.checked = @ \cup {l},
                              !.passed = IF sel.has_capacity THEN @ \cup {l} ELSE @,
                              !.picks = @ \cup {[provider |-> provider, sel |-> sel]}]
              IN  /\ dJobs' = dJobs \o loop.jobs
                  /\ dCycle' = IF loop.raised
                               THEN [seen EXCEPT !.pc = "idle", !.raised = TRUE]
                               ELSE [seen EXCEPT !.pos = @ + 1]
    /\ UNCHANGED <<dNow, dRun, dTicks>>
    /\ DispFrame

\* The first loop is exhausted; the second iterator() runs the query again
ForecastEnd ==
    /\ comp = "dispatch"
    /\ dCycle.pc = "forecast"
    /\ dCycle.pos > Len(dCycle.links)
    /\ \E links \in Orders(DispatchableLinks(dConf)) :
          dCycle' = [dCycle EXCEPT !.pc = "history", !.links = links, !.pos = 1]
    /\ UNCHANGED <<dNow, dJobs, dRun, dTicks>>
    /\ DispFrame

\* One iteration of the second loop
HistoryLink ==
    /\ comp = "dispatch"
    /\ dCycle.pc = "history"
    /\ dCycle.pos <= Len(dCycle.links)
    /\ LET l == dCycle.links[dCycle.pos]
           provider == dConf.links[l].provider
       IN  \E tokens \in Orders(ActiveTokens(dConf, provider)) :
              LET sel == get_available_token_with_capacity(dConf, provider, tokens, dCycle.now)
              IN  /\ dJobs' = IF sel.has_capacity
                              THEN Append(dJobs, Job("history", l, <<>>, sel.token_id,
                                                     dCycle.n, dCycle.now))
                              ELSE dJobs
                  /\ dCycle' = [dCycle EXCEPT
                                   !.revisited = @ \cup {l},
                                   !.picks = @ \cup {[provider |-> provider, sel |-> sel]},
                                   !.pos = @ + 1]
    /\ UNCHANGED <<dNow, dRun, dTicks>>
    /\ DispFrame

\* The second loop is exhausted and the task returns
HistoryEnd ==
    /\ comp = "dispatch"
    /\ dCycle.pc = "history"
    /\ dCycle.pos > Len(dCycle.links)
    /\ dCycle' = [dCycle EXCEPT !.pc = "idle"]
    /\ UNCHANGED <<dNow, dJobs, dRun, dTicks>>
    /\ DispFrame

\* The worker process, which runs one task at a time, takes the oldest job
\* not yet run and runs its task to the end
JobRun ==
    /\ comp = "dispatch"
    /\ dCycle.pc = "idle"
    /\ dRun < Len(dJobs)
    /\ LET job == dJobs[dRun + 1]
           out == IF job.kind = "forecast"
                  THEN forecast_task(dConf, job, dNow)
                  ELSE history_task(dConf, job, store, dNow)
       IN  dJobs' = [dJobs EXCEPT ![dRun + 1].out = <<out>>]
    /\ dRun' = dRun + 1
    /\ UNCHANGED <<dNow, dCycle, dTicks>>
    /\ DispFrame

DispNext ==
    \/ DispTick
    \/ CycleStart
    \/ ForecastLink
    \/ ForecastEnd
    \/ HistoryLink
    \/ HistoryEnd
    \/ JobRun

SpecDispatch == DispInit /\ [][DispNext]_vars

(***************************************************************************)
(* Properties of the dispatch cycle                                        *)
(***************************************************************************)
\* The task has started at least once: dCycle holds the record of a cycle
CycleSeen == comp = "dispatch" /\ dCycle.n > 0

\* A credential has capacity at the cycle's now
TokenFits(t) ==
    token_has_capacity(dConf.providers[dConf.tokens[t].provider].limits,
                       dConf.tokens[t].stats, dCycle.now).has

\* First-fit over a fixed order of a provider's active credentials
FirstFit(order) ==
    IF \E i \in DOMAIN order : TokenFits(order[i])
    THEN [has_capacity |-> TRUE,
          token_id |-> <<order[CHOOSE i \in DOMAIN order :
                                  /\ TokenFits(order[i])
                                  /\ \A j \in 1 .. i - 1 : ~TokenFits(order[j])]>>]
    ELSE [has_capacity |-> FALSE, token_id |-> <<>>]

(* C12: credential selection is first-fit over the provider's active
   credentials in a stable order: there is one order of them such that every
   selection of the cycle (all are made in the same state and at the same
   now) returns the earliest credential of that order with capacity, never
   an inactive one or one without capacity, and has_capacity = false when
   none has capacity; so two selections return the same credential. *)
C12_FirstFitInStableOrder ==
    CycleSeen =>
        \A p \in ProviderIds :
            ActiveTokens(dConf, p) # {} =>
                \E order \in Orders(ActiveTokens(dConf, p)) :
                    \A pick \in dCycle.picks :
                        pick.provider = p => pick.sel = FirstFit(order)

\* The jobs of the log a worker has run, by their place in the log
RanJobs == {i \in DOMAIN dJobs : dJobs[i].out # <<>>}

\* A job's task ended with the named exception
EndedWith(job, exc) == job.out[1].end.k = "raise" /\ job.out[1].end.exc = exc

(* C13: for a provider without active credentials the selection reports
   has_capacity = true and no credential, and this passes through: a job
   emitted without a credential, forecast or history, does not fail for the
   lack of it. *)
C13_NoCredentialPassesThrough ==
    CycleSeen =>
        /\ \A pick \in dCycle.picks :
              ActiveTokens(dConf, pick.provider) = {}
                  => pick.sel = [has_capacity |-> TRUE, token_id |-> <<>>]
        /\ \A i \in RanJobs :
              dJobs[i].token_id = <<>> => ~EndedWith(dJobs[i], "DoesNotExist")

\* The forecast pass of the cycle on record is over: ended or left
ForecastPassOver == CycleSeen /\ dCycle.pc \in {"history", "idle"}

\* The forecast jobs the cycle on record emitted for a link and a bucket
ForecastJobs(l, bucket) ==
    {i \in DOMAIN dJobs : /\ dJobs[i].kind = "forecast" /\ dJobs[i].cycle = dCycle.n
                          /\ dJobs[i].link = l /\ dJobs[i].bucket = <<bucket>>}

\* The provider of the link has a period configured for the bucket
PeriodConfigured(l, bucket) ==
    LET period_iso == dConf.providers[dConf.links[l].provider].periods[bucket]
    IN  period_iso # <<>> /\ period_iso[1] # <<>>

\* should_run is true for (forecast, bucket) of the link at the cycle's now
ForecastDue(l, bucket) ==
    should_run(StatusEntry(dConf.links[l].status, StatusKey("forecast", bucket)),
               dConf.providers[dConf.links[l].provider].periods[bucket], dCycle.now) = Ret(TRUE)

(* C14: in the forecast pass of a cycle exactly one forecast job is emitted
   for (link, bucket) iff the link passed the capacity check, the bucket is
   hourly or daily with a period configured on the provider, and should_run
   is true for (forecast, bucket); otherwise none is emitted. The job carries
   a credential the selection returned for the link's provider. *)
C14_ForecastJobIffDue ==
    ForecastPassOver =>
        \A l \in LinkIds, bucket \in {"hourly", "daily"} :
            /\ Cardinality(ForecastJobs(l, bucket)) =
                  IF l \in dCycle.passed /\ PeriodConfigured(l, bucket) /\ ForecastDue(l, bucket)
                  THEN 1 ELSE 0
            /\ \A i \in ForecastJobs(l, bucket) :
                  \E pick \in dCycle.picks :
                      /\ pick.provider = dConf.links[l].provider
                      /\ pick.sel.has_capacity
                      /\ pick.sel.token_id = dJobs[i].token_id

\* The link, its provider or its point is switched off
SwitchedOff(l) ==
    \/ ~dConf.links[l].is_active
    \/ ~dConf.providers[dConf.links[l].provider].is_active
    \/ ~dConf.points[dConf.links[l].meteo_point].is_active

(* C15: a link that is inactive, or whose provider is inactive, or whose
   point is inactive, gets no job in either pass of a dispatch cycle: no
   forecast job and no history job is emitted for it, and neither loop
   visits it. *)
C15_SwitchedOffGetsNoJob ==
    comp = "dispatch" =>
        \A l \in LinkIds :
            SwitchedOff(l) =>
                /\ \A i \in DOMAIN dJobs : dJobs[i].link # l
                /\ dCycle.n > 0 => l \notin dCycle.checked \cup dCycle.revisited

\* A cycle ran both passes to the end and emitted a forecast job and a
\* history job for the second link, while the first link is active on an
\* active provider but its point is switched off
C15_Witness ==
    /\ CycleSeen /\ dCycle.pc = "idle" /\ ~dCycle.raised
    /\ dConf.links[1].is_active /\ dConf.providers[1].is_active
    /\ ~dConf.points[dConf.links[1].meteo_point].is_active
    /\ \E i, j \in DOMAIN dJobs :
          /\ dJobs[i].kind = "forecast" /\ dJobs[i].link = 2
          /\ dJobs[j].kind = "history" /\ dJobs[j].link = 2
    /\ dCycle.revisited = {2}

\* The last-run timestamp recorded on a link for (forecast, bucket), if any
RecordedLastRun(l, bucket) ==
    LET entry == StatusEntry(dConf.links[l].status, StatusKey("forecast", bucket))
    IN  IF entry.k = "map" THEN parse_iso_utc(entry.last_update) ELSE <<>>

\* The period of a bucket on the link's provider, in seconds
PeriodSeconds(l, bucket) ==
    parse_iso_duration(dConf.providers[dConf.links[l].provider].periods[bucket])[1]

(* C16: the last-run timestamp of (forecast, bucket) is recorded on the link
   when its forecast job runs: once a worker has run the forecast job of
   (link, bucket) at time t, the link's status holds a last_update of that
   run, and no later cycle emits another forecast job for the same (link,
   bucket) before t + period. *)
C16_ForecastRunIsRecorded ==
    comp = "dispatch" =>
        \A i \in RanJobs :
            dJobs[i].kind = "forecast" =>
                LET l == dJobs[i].link
                    bucket == dJobs[i].bucket[1]
                    t == dJobs[i].out[1].at
                IN  /\ RecordedLastRun(l, bucket) # <<>>
                    /\ RecordedLastRun(l, bucket)[1] >= dJobs[i].at
                    /\ \A j \in DOMAIN dJobs :
                          (/\ j > i /\ dJobs[j].kind = "forecast"
                           /\ dJobs[j].link = l /\ dJobs[j].bucket = <<bucket>>)
                              => dJobs[j].at >= t + PeriodSeconds(l, bucket)

(* C17: a job emitted with a chosen credential runs the ingestion with that
   credential: once a worker has run the job, its engine's adapter was built
   with exactly the credential the dispatcher attached, the one whose usage
   document the adapter's HTTP calls are counted on. *)
C17_JobRunsWithItsCredential ==
    comp = "dispatch" =>
        \A i \in RanJobs :
            dJobs[i].token_id # <<>> =>
                /\ dJobs[i].out[1].end.k = "ret"
                /\ dJobs[i].out[1].adapter_token = dJobs[i].token_id

\* The task of the cycle on record is over: returned or left by an exception
CycleOver == CycleSeen /\ dCycle.pc = "idle"

\* The links whose handling raised in the cycle on record
FailedLinks == IF dCycle.raised THEN {dCycle.links[dCycle.pos]} ELSE {}

(* C18: an error raised while one link is handled does not abort the cycle:
   when the cycle is over every other eligible link has been evaluated in
   the forecast pass and in the history pass. *)
C18_LinkFailureIsIsolated ==
    CycleOver =>
        \A l \in DispatchableLinks(dConf) \ FailedLinks :
            l \in dCycle.checked /\ l \in dCycle.revisited

\* The dates from the first day of the year to now for which the store has
\* no row of the link's point
MissingDates(l, now) ==
    {d \in DateOf(YearStart(now)) .. DateOf(now) :
        \A r \in store : r.meteo_point = dConf.links[l].meteo_point =>
                             DateOf(r.timestamp_utc) # d}

\* What a run history job reports is the gaps of its link: sub-ranges of at
\* most 30 days that cover every missing date
GapsDetected(job) ==
    /\ job.out[1].detected # <<>>
    /\ \A k \in DOMAIN job.out[1].detected[1] :
           job.out[1].detected[1][k][2] - job.out[1].detected[1][k][1] < DefaultMaxDays
    /\ \A d \in MissingDates(job.link, job.out[1].at) :
           \E k \in DOMAIN job.out[1].detected[1] :
               /\ job.out[1].detected[1][k][1] <= d
               /\ d <= job.out[1].detected[1][k][2]

(* C19: each gap sub-range detected for a link is ingested as its own
   history job with date_from and date_to equal to the bounds of the
   sub-range, and a failure while one sub-range is ingested does not keep
   the remaining ones from being ingested: once a worker has run the history
   job of a link with a credential, the gaps of the link have been detected
   and the ingestion of every one of them has been begun. *)
C19_EveryGapRangeIsIngested ==
    comp = "dispatch" =>
        \A i \in RanJobs :
            (dJobs[i].kind = "history" /\ dJobs[i].token_id # <<>>) =>
                /\ GapsDetected(dJobs[i])
                /\ dJobs[i].out[1].attempted = dJobs[i].out[1].detected[1]

\* The jobs of the cycle before the one on record that a worker ran and
\* that failed
FailedBefore(kind) ==
    {i \in RanJobs : /\ dJobs[i].kind = kind /\ dJobs[i].cycle + 1 = dCycle.n
                     /\ dJobs[i].out[1].end.k = "raise"}

\* Gap detection of the cycle on record reports again what a failed history
\* job of the cycle before left missing
HistoryFailureRedetected ==
    CycleSeen =>
        \A i \in FailedBefore("history") :
            \A j \in RanJobs :
                (/\ dJobs[j].kind = "history" /\ dJobs[j].cycle = dCycle.n
                 /\ dJobs[j].link = dJobs[i].link) =>
                    /\ MissingDates(dJobs[j].link, dJobs[j].out[1].at) # {}
                    /\ GapsDetected(dJobs[j])

\* A forecast job that failed in the cycle before is emitted again by the
\* cycle on record, once its forecast pass has gone through
ForecastFailureReemitted ==
    (ForecastPassOver /\ ~dCycle.raised) =>
        \A i \in FailedBefore("forecast") :
            \E j \in DOMAIN dJobs :
                /\ dJobs[j].kind = "forecast" /\ dJobs[j].cycle = dCycle.n
                /\ dJobs[j].link = dJobs[i].link /\ dJobs[j].bucket = dJobs[i].bucket

(* C20: failed work is retried by the next dispatch cycle: a history
   sub-range whose ingestion failed is reported as missing again by the gap
   detection of the next cycle, and a forecast job that failed is emitted
   again by the next cycle. *)
C20_FailedWorkIsRetried ==
    HistoryFailureRedetected /\ ForecastFailureReemitted

\* The adapter calls (get_forecast or get_history) the job a worker is in
\* has made: one per plan whose _fetch was entered
AdapterCalls(w) ==
    CASE iWorker[w].pc \in {"delete", "insert"} -> iWorker[w].idx
      [] iWorker[w].pc = "fetch" -> iWorker[w].idx - 1
      [] OTHER -> 0

(* C22: one ingestion job calls the provider adapter's forecast-or-history
   operation at most once, whatever sections the job requests, the two
   sections hourly and daily of a history job included. *)
C22_OneAdapterCallPerJob ==
    comp = "ingest" => \A w \in IngestWorkers : AdapterCalls(w) <= 1

\* The count recorded today for a credential
DayCount(t) ==
    LET stat == LatestStat(dConf.tokens[t].stats)
    IN  IF stat = <<>> THEN 0 ELSE Get(stat[1].meta.usage.by_day, DayKey(dNow), 0)

\* The jobs emitted with a credential that no worker has run yet
PendingJobs(t) == {i \in DOMAIN dJobs : dJobs[i].out = <<>> /\ dJobs[i].token_id = <<t>>}

(* C23: for a credential with a limit L on a window, under every
   interleaving of dispatch cycles and of the jobs they emit, the count of
   the window exceeds L by at most one request: the count recorded for the
   day together with the jobs the cycles have let through for the
   credential, one request each at the least, stays within L + 1. *)
C23_AtMostOneOverLimit ==
    comp = "dispatch" =>
        \A t \in TokenIds :
            LET limits == dConf.providers[dConf.tokens[t].provider].limits
            IN  "per_day" \in DOMAIN limits =>
                    DayCount(t) + Cardinality(PendingJobs(t)) <= limits["per_day"] + 1

(***************************************************************************)
(* _build_default_plan and the argument checks of DataProcessEngine.__init__ *)
(* (weathers/weather_processing/data_processing_engine.py)                 *)
(***************************************************************************)
\* The sections a plan exists for
KnownSections == {"hourly", "daily", "minutely_15"}

\* _build_default_plan(sections): the plans' granularities in the order of
\* the sections, or the ValueError of the first unknown section
RECURSIVE _build_default_plan(_, _, _)
_build_default_plan(sections, i, plans) ==
    IF i > Len(sections)
    THEN Ret(plans)
    ELSE IF sections[i] \in KnownSections
         THEN _build_default_plan(sections, i + 1, Append(plans, sections[i]))
         ELSE Raise("ValueError")

\* The provider code the engine has an adapter for
SupportedProviderCode == "open_meteo"

\* The body of __init__ up to the construction of the adapter: the checks of
\* mode and of the history dates, the plans, the check of the provider code
EngineInitChecks(mode, dates_given, sections, provider_code) ==
    IF mode \notin {"forecast", "history"}
    THEN Raise("ValueError")
    ELSE IF mode = "history" /\ ~dates_given
         THEN Raise("ValueError")
         ELSE LET plans == _build_default_plan(sections, 1, <<>>)
              IN  IF plans.k = "raise"
                  THEN plans
                  ELSE IF provider_code # SupportedProviderCode
                       THEN Raise("NotImplementedError")
                       ELSE plans

\* Section lists with a section no plan exists for, and other provider codes
UnknownSectionLists ==
    {<<"weekly">>, <<"hourly", "weekly">>, <<"weekly", "daily">>, <<"Hourly">>, <<"">>}
OtherProviderCodes == {"meteoblue", "Open_Meteo", ""}

(* C26: configuration errors fail fast and are surfaced as an error to the
   caller of the operation, never silently coerced to a default: a malformed
   duration string given to should_run, an unknown granularity section and
   an unsupported provider code given to the engine each produce an error. *)
C26_ConfigErrorsFailFast ==
    /\ (comp = "sched" /\ sOut # <<>> /\ sIn.period_iso \in {<<s>> : s \in BadPeriods})
           => sOut[1].k = "raise"
    /\ \A sections \in UnknownSectionLists :
           EngineInitChecks("forecast", FALSE, sections, SupportedProviderCode)
               = Raise("ValueError")
    /\ \A code \in OtherProviderCodes :
           EngineInitChecks("forecast", FALSE, <<"hourly">>, code)
               = Raise("NotImplementedError")

\* The two engine conjuncts of C26 on their own
EngineConfigErrorsRaise ==
    /\ \A sections \in UnknownSectionLists :
           EngineInitChecks("forecast", FALSE, sections, SupportedProviderCode).k = "raise"
    /\ \A code \in OtherProviderCodes :
           EngineInitChecks("history", TRUE, <<"hourly", "daily">>, code).k = "raise"

(***************************************************************************)
(* Properties of process() on the outcomes of one fetch                    *)
(***************************************************************************)
\* A step in which worker w comes back from _fetch and _standardize: it goes
\* on to the save, its job is ended by an exception, or _save_narrow
\* returned 0 and is logged
FetchStep(w) ==
    /\ comp \in IngestComps
    /\ iWorker[w].pc = "fetch"
    /\ \/ iWorker'[w].pc = "delete"
       \/ "raised" \in DOMAIN iWorker'[w]
       \/ Len(iLog') > Len(iLog)

\* What _fetch returned in that step
FetchedRaw(w) ==
    IF iWorker'[w].pc = "delete"
    THEN [k |-> "ok", section |-> iWorker'[w].section]
    ELSE IF "raised" \in DOMAIN iWorker'[w]
         THEN iWorker'[w].raw
         ELSE [k |-> "ok", section |-> iLog'[Len(iLog')].section]

\* The payload's section is present and non-empty and has no time array
LacksTime(raw) == raw.k = "ok" /\ raw.section # <<>> /\ raw.section[1].time = <<>>

\* The payload yields no row for the section: the section is absent or
\* empty, or its time array is empty
ZeroRows(raw) ==
    raw.k = "ok" /\ (raw.section = <<>> \/ raw.section[1].time = << <<>> >>)

(* C27: when the payload of a requested section is present and non-empty but
   has no time array, the job fails with an error, and no row of that
   section is deleted from or inserted into the store. *)
C27_MissingTimeArrayFailsJob ==
    [][\A w \in IngestWorkers :
          (FetchStep(w) /\ LacksTime(FetchedRaw(w)))
              => /\ iWorker'[w].pc = "idle"
                 /\ "raised" \in DOMAIN iWorker'[w]
                 /\ iWorker'[w].raised = "ValueError"
                 /\ store' = store
                 /\ iLog' = iLog]_vars

\* A job on the stored hourly forecast series of point 1 that a section
\* without a time array has ended, the stored rows in place
C27_Witness ==
    /\ comp = "save"
    /\ \E w \in IngestWorkers :
          /\ "raised" \in DOMAIN iWorker[w]
          /\ iWorker[w].raised = "ValueError"
          /\ LacksTime(iWorker[w].raw)
          /\ iWorker[w].engine.overwrite
          /\ iWorker[w].engine.point = 1
          /\ iWorker[w].engine.plan = [mode |-> "forecast", sections |-> <<"hourly">>]
    /\ store \in SaveStores /\ store # {}

(* C28: an ingestion whose provider response yields zero rows for a
   requested granularity (section absent, empty, or with an empty time
   array) does not raise: it reports an inserted count of 0 for that
   granularity and leaves the store unchanged. *)
C28_ZeroRowsIsNotAnError ==
    [][\A w \in IngestWorkers :
          (FetchStep(w) /\ ZeroRows(FetchedRaw(w)))
              => /\ "raised" \notin DOMAIN iWorker'[w]
                 /\ store' = store
                 /\ Len(iLog') = Len(iLog) + 1
                 /\ iLog'[Len(iLog')].inserted = 0
                 /\ iLog'[Len(iLog')].granularity
                        = iWorker[w].engine.plan.sections[iWorker[w].idx]]_vars

\* A history job met an empty time array for hourly, counted 0 for it and
\* went on to daily, the stored rows in place
C28_Witness ==
    /\ comp = "save"
    /\ store \in SaveStores /\ store # {}
    /\ \E w \in IngestWorkers :
          /\ iWorker[w].pc = "fetch" /\ iWorker[w].idx = 2
          /\ iWorker[w].summary = <<0>>
    /\ Len(iLog) = 1
    /\ iLog[1].section = <<BlockNoTimes>>
    /\ iLog[1].inserted = 0

\* The stored status for (mode, bucket) is missing or garbled: no entry, an
\* entry that is not a mapping, a last_update that is absent, not a string,
\* blank, or not parseable as a timestamp
StatusMissingOrGarbled ==
    \/ sIn.entry.k \in {"absent", "scalar"}
    \/ sIn.entry.k = "map" /\ sIn.entry.last_update.k # "iso"

(* C29: should_run never raises on malformed optional status input: for a
   valid positive period, a link whose stored status for (mode, bucket) is
   missing or garbled is treated as never run and should_run returns
   true. *)
C29_GarbledStatusMeansNeverRun ==
    (comp = "sched" /\ sOut # <<>> /\ ~PeriodUnusable(sIn.period_iso)
        /\ StatusMissingOrGarbled)
        => sOut[1] = Ret(TRUE)

\* The same without the entries that are no mapping
GarbledLastUpdateMeansNeverRun ==
    (comp = "sched" /\ sOut # <<>> /\ ~PeriodUnusable(sIn.period_iso)
        /\ StatusMissingOrGarbled /\ sIn.entry.k # "scalar")
        => sOut[1] = Ret(TRUE)

\* The timestamps of a job's normalized rows
RowTimes(rows) ==
    {_parse_iso_utc(Get(rows[i], "date_time", NoneValue))[1] :
        i \in {j \in DOMAIN rows : _parse_iso_utc(Get(rows[j], "date_time", NoneValue)) # <<>>}}

(* C30: the overwrite delete of a save step removes the rows of exactly the
   job's point and exactly the job's data_type whose timestamp lies in
   [min, max] of the job's normalized rows, and only these: rows of any
   other point, of any other data_type or with a timestamp outside that
   span are left unchanged, and with overwrite disabled no row is deleted
   at all. *)
C30_DeleteIsExactlyTheSpan ==
    [][\A w \in IngestWorkers :
          (comp \in IngestComps /\ iWorker[w].pc = "delete" /\ iWorker'[w].pc = "insert")
          => LET me == iWorker[w]
                 data_type == DataType(me.engine.plan.mode, me.engine.plan.sections[me.idx])
                 times == RowTimes(me.rows)
             IN  /\ store' \subseteq store
                 /\ store \ store' =
                        IF me.engine.overwrite /\ times # {}
                        THEN {r \in store : /\ r.meteo_point = me.engine.point
                                            /\ r.data_type = data_type
                                            /\ r.timestamp_utc >= SetMin(times)
                                            /\ r.timestamp_utc <= SetMax(times)}
                        ELSE {}]_vars

\* The frame alone: a save step's delete removes no row of another point, of
\* another data_type or outside the span, and none with overwrite disabled
DeleteRemovesNothingElse ==
    [][\A w \in IngestWorkers :
          (comp \in IngestComps /\ iWorker[w].pc = "delete" /\ iWorker'[w].pc = "insert")
          => LET me == iWorker[w]
                 data_type == DataType(me.engine.plan.mode, me.engine.plan.sections[me.idx])
                 times == RowTimes(me.rows)
             IN  /\ store' \subseteq store
                 /\ \A r \in store \ store' :
                        /\ me.engine.overwrite /\ times # {}
                        /\ r.meteo_point = me.engine.point /\ r.data_type = data_type
                        /\ r.timestamp_utc >= SetMin(times)
                        /\ r.timestamp_utc <= SetMax(times)]_vars

\* The history-typed values of WeatherData.DataType
HistoryTypes == {"history_hourly", "history_daily", "history_15m"}

\* The dates from the first day of the year to now for which the store has
\* no history-typed row of the link's point
DatesWithoutHistory(l, now) ==
    {d \in DateOf(YearStart(now)) .. DateOf(now) :
        \A r \in store :
            (r.meteo_point = dConf.links[l].meteo_point /\ r.data_type \in HistoryTypes)
                => DateOf(r.timestamp_utc) # d}

(* C31: the history pass detects gaps against the link's stored history
   rows only: once a worker has run the history job of a link with a
   credential, every date of the year to date without a history-typed row,
   the dates that hold forecast-typed rows only included, is in a range the
   job reports as missing. *)
C31_GapsAreOfHistoryRows ==
    comp = "dispatch" =>
        \A i \in RanJobs :
            (dJobs[i].kind = "history" /\ dJobs[i].token_id # <<>>) =>
                /\ dJobs[i].out[1].detected # <<>>
                /\ \A d \in DatesWithoutHistory(dJobs[i].link, dJobs[i].out[1].at) :
                       \E k \in DOMAIN dJobs[i].out[1].detected[1] :
                           /\ dJobs[i].out[1].detected[1][k][1] <= d
                           /\ d <= dJobs[i].out[1].detected[1][k][2]

(***************************************************************************)
(* Two worker processes in process() at the same time, both with overwrite *)
(* on the same point, mode and section                                     *)
(***************************************************************************)
RaceWorkers == {1, 2}

RaceEngine ==
    [point |-> 1, overwrite |-> TRUE, plan |-> [mode |-> "forecast", sections |-> <<"hourly">>]]

RaceInit ==
    /\ comp = "race"
    /\ store = {}
    /\ iNextId = 1
    /\ iWorker = [w \in RaceWorkers |-> IngWorkerIdle]
    /\ iJobs = 0
    /\ iLog = <<>>
    /\ GapIdle /\ SchedIdle /\ CapIdle /\ UsageIdle /\ DispIdle /\ SendIdle

\* process() is entered by an idle worker process, twice in all
RaceBegin(w) ==
    /\ comp = "race"
    /\ iWorker[w] = IngWorkerIdle
    /\ iJobs < Cardinality(RaceWorkers)
    /\ iWorker' = [iWorker EXCEPT ![w] =
            [pc |-> "fetch", engine |-> RaceEngine, idx |-> 1, summary |-> <<>>]]
    /\ iJobs' = iJobs + 1
    /\ UNCHANGED <<store, iNextId, iLog>>
    /\ IngestFrame

RaceNext ==
    \/ \E w \in RaceWorkers : RaceBegin(w)
    \/ \E w \in RaceWorkers : IngFetch(w)
    \/ \E w \in RaceWorkers : IngDelete(w)
    \/ \E w \in RaceWorkers : IngInsert(w)
    \/ \E w \in RaceWorkers : IngCrash(w)

SpecRace == RaceInit /\ [][RaceNext]_vars

\* The objects a save built from the section it was given
SavedObjs(entry) ==
    LET std == open_meteo_standardize(entry.section)
    IN  Range(BuildObjs(std.rows, 1, entry.point, DataType(entry.mode, entry.granularity)))

\* Both jobs are over, each has committed rows, and their spans overlap at t
BothCommitted ==
    /\ comp = "race"
    /\ \A w \in RaceWorkers : iWorker[w].pc = "idle"
    /\ Len(iLog) = 2
    /\ iLog[1].inserted > 0 /\ iLog[2].inserted > 0

InOverlap(t) ==
    /\ InSpanOf(SavedObjs(iLog[1]), [timestamp_utc |-> t])
    /\ InSpanOf(SavedObjs(iLog[2]), [timestamp_utc |-> t])

(* C32: when two overwrite jobs for the same point and data_type whose time
   spans overlap run concurrently and both complete, the rows the store
   holds at the timestamps of the overlap are those of the job that
   committed last, one row per (parameter, timestamp), never rows of both
   jobs. *)
C32_LastCommitWins ==
    BothCommitted =>
        \A r \in store :
            InOverlap(r.timestamp_utc) =>
                /\ Content(r) \in SavedObjs(iLog[2])
                /\ \A q \in store :
                      (q.parameter = r.parameter /\ q.timestamp_utc = r.timestamp_utc
                          /\ q.meteo_point = r.meteo_point /\ q.data_type = r.data_type)
                          => q.id = r.id

\* The stored per_minute window of the snapshot is at the limit and as old as
\* the window is long
ExpiredMinuteStored ==
    /\ CapSnapshotExists
    /\ CapSnapshot.usage.per_minute # <<>>
    /\ CapSnapshot.usage.per_minute[1].count >= CapLimit
    /\ WindowAge(CapSnapshot.usage.per_minute[1]) >= PerMinuteSeconds

(* C33: the capacity read is purely observational: a call of
   token_has_capacity leaves every usage document of the credential as it
   was, and a stored sliding window that has expired is read as 0 (the
   credential has capacity under a per_minute limit alone) while the stored
   window stays, start and count, in the document. *)
C33_CapacityReadLeavesUsage ==
    [][(comp = "cap" /\ cOut = <<>> /\ cOut' # <<>>) =>
          /\ cIn'.stats = cIn.stats
          /\ (ExpiredMinuteStored /\ DOMAIN cIn.limits = {"per_minute"}
                 /\ cIn.limits["per_minute"] > 0)
                => cOut'[1].has]_vars

C33_Witness ==
    /\ comp = "cap" /\ cOut # <<>>
    /\ ExpiredMinuteStored
    /\ DOMAIN cIn.limits = {"per_minute"} /\ cIn.limits["per_minute"] = CapLimit
    /\ CapSnapshot.usage.per_minute[1].count = CapLimit
    /\ cOut[1].has

\* The dispatch task and the credential selection leave the credentials'
\* rows as they were
DispatchLeavesUsage ==
    [][comp = "dispatch" => \A t \in TokenIds : dConf'.tokens[t].stats = dConf.tokens[t].stats]_vars

(* C34: in every reachable state the credential has at most one usage
   document, whatever the interleaving of its usage updates, several
   first-ever updates racing on a credential without a document
   included. *)
C34_OneUsageDocumentPerCredential ==
    comp = "usage" => Cardinality(uStats) <= 1

\* The exceeded map the update applied last has stored ({} when it stored none)
PrevExceeded == Get(aPrev[1].saved, "exceeded", <<>>)

\* The count of a window after the update applied last
UpdatedCount(key) ==
    CASE key = "per_minute" -> PrevSaved.per_minute[1].count
      [] key = "per_hour" -> PrevSaved.per_hour[1].count
      [] key = "per_day" -> PrevSaved.by_day[DayKey(aPrev[1].now)]
      [] key = "per_month" -> PrevSaved.by_month[MonthKey(aPrev[1].now)]

(* C35: after each usage update the stored exceeded map has one entry for
   every limit key of the provider's currently configured limits and no
   entry for any other key, and exceeded[w] is true iff the count of window
   w the update has just written is >= limit[w]. *)
C35_ExceededOfConfiguredLimits ==
    (comp = "send" /\ aPrev # <<>>) =>
        /\ DOMAIN PrevExceeded = DOMAIN uLimits
        /\ \A w \in DOMAIN PrevExceeded \cap DOMAIN uLimits :
              PrevExceeded[w] = (UpdatedCount(w) >= uLimits[w])

\* The flags are those of the limits the update has stored, the document's
\* earlier limits overlaid with the configured ones
ExceededOfStoredLimits ==
    (comp = "send" /\ aPrev # <<>>) =>
        LET limits == Get(aPrev[1].saved, "limits", <<>>)
        IN  /\ DOMAIN PrevExceeded = DOMAIN limits \cap WindowKeys
            /\ \A w \in DOMAIN PrevExceeded : PrevExceeded[w] = (UpdatedCount(w) >= limits[w])

\* A calendar dict after an update that met the keys of old: the current key
\* is in it; with more than max keys at hand the kept most recent ones stay
\* and no other, else all stay
KeptRecent(old, new, key, max, kept) ==
    LET all == DOMAIN old \cup {key}
    IN  /\ key \in DOMAIN new
        /\ IF Cardinality(all) > max
           THEN /\ DOMAIN new = {k \in all : Cardinality({y \in all : y > k}) < kept}
                /\ Cardinality(DOMAIN new) = kept
           ELSE DOMAIN new = all

(* C36: after any sequence of usage updates under a clock that does not go
   back, usage.by_day holds at most 150 keys and usage.by_month at most 30;
   a pruning keeps exactly the 120 most recent day keys (the 24 most recent
   month keys), and the key of the current day / month, just incremented,
   is never pruned. *)
C36_CalendarsStayBounded ==
    comp = "send" =>
        /\ \A r \in uStats :
              "usage" \in DOMAIN r.meta =>
                  /\ Cardinality(DOMAIN r.meta.usage.by_day) <= DayKeysMax
                  /\ Cardinality(DOMAIN r.meta.usage.by_month) <= MonthKeysMax
        /\ aPrev # <<>> =>
              /\ KeptRecent(PrevRead.by_day, PrevSaved.by_day, DayKey(aPrev[1].now),
                            DayKeysMax, DayKeysKept)
              /\ KeptRecent(PrevRead.by_month, PrevSaved.by_month, MonthKey(aPrev[1].now),
                            MonthKeysMax, MonthKeysKept)

\* The update of a document of long use, 150 day keys and 30 month keys
\* before the current ones: both prunings fire and the current keys stay
C36_Witness ==
    /\ comp = "send" /\ aPrev # <<>>
    /\ Cardinality(DOMAIN PrevRead.by_day) = DayKeysMax
    /\ Cardinality(DOMAIN PrevRead.by_month) = MonthKeysMax
    /\ Cardinality(DOMAIN PrevSaved.by_day) = DayKeysKept
    /\ Cardinality(DOMAIN PrevSaved.by_month) = MonthKeysKept
    /\ PrevSaved.by_day[DayKey(aPrev[1].now)] = 1
    /\ PrevSaved.by_month[MonthKey(aPrev[1].now)] = 1

(***************************************************************************)
(* BaseProviderInterface.stream_to_bytes, and send_request, by their HTTP  *)
(* exchanges                                                               *)
(***************************************************************************)
\* Bound of the max_attempts drawn for stream_to_bytes
MaxStreamAttempts == 2

\* The exceptions the except clause of the loop catches
StreamTransient == {"ChunkedEncodingError", "ConnectionError", "ReadTimeout"}

\* How an exchange of stream_to_bytes can end: the body read under a status,
\* a caught exception (before or while the body is read), another exception
StreamOutcomes ==
    {Ret(st) : st \in {200, 206, 304, 429}}
        \cup {Raise(e) : e \in StreamTransient \cup {"TooManyRedirects"}}

\* The test that ends the while loop: not (attempts < max_attempts)
StreamGivesUp_OneMore(attempts, max_attempts) == attempts > max_attempts

StreamGivesUp(attempts, max_attempts) == ~(attempts < max_attempts)

RetryInit ==
    /\ comp = "retry"
    /\ uLimits = <<>>
    /\ uTzUtc = TRUE
    /\ uNow = CapNow
    /\ uTicks = 0
    /\ uStats = {}
    /\ uNextId = 1
    /\ uBase = 0
    /\ uWorker = <<>>
    /\ uStarted = 0 /\ uReturned = 0 /\ uRaised = 0
    /\ aCall = AdapterIdle
    /\ aSent = 0
    /\ aPrev = <<>>
    /\ GapIdle /\ SchedIdle /\ CapIdle /\ IngestIdle /\ DispIdle

\* How a call of stream_to_bytes ended
StreamDone(me, out) ==
    [pc |-> "idle", out |-> <<out>>, tried |-> me.tried, max_attempts |-> me.max_attempts]

\* stream_to_bytes is entered with its max_attempts; attempts = 0, and the
\* loop is not entered when the test fails at once
StreamBegin ==
    /\ comp = "retry"
    /\ aCall.pc = "idle"
    /\ uStarted < MaxSends
    /\ \E max_attempts \in 0 .. MaxStreamAttempts :
          LET me == [pc |-> "stream", attempts |-> 0, max_attempts |-> max_attempts,
                     out |-> <<>>, tried |-> <<>>]
          IN  aCall' = IF StreamGivesUp(0, max_attempts)
                       THEN StreamDone(me, Raise("RuntimeError"))
                       ELSE me
    /\ uStarted' = uStarted + 1
    /\ UNCHANGED <<uStats, uNow, uTicks, uNextId, uReturned, aSent, aPrev>>
    /\ SendFrame

\* One iteration of the while loop: one request. A status other than 200 and
\* 206 is counted and raise_for_status leaves the call if it raises; then the
\* body is read, the use is counted and the bytes are returned. A caught
\* exception adds one to attempts and the loop test runs again; any other
\* exception leaves the call.
StreamRequest ==
    /\ comp = "retry"
    /\ aCall.pc = "stream"
    /\ aSent' = aSent + 1
    /\ \E o \in StreamOutcomes :
          LET me == [aCall EXCEPT !.tried = Append(@, o)]
              first == update_provider_token_stats(uStats, uNextId, uLimits, uNow, o.v, uTzUtc)
              second == update_provider_token_stats(first.stats, first.next_id, uLimits, uNow,
                                                    o.v, uTzUtc)
          IN  IF o.k = "raise"
              THEN /\ aCall' = IF o.exc \in StreamTransient
                               THEN IF StreamGivesUp(me.attempts + 1, me.max_attempts)
                                    THEN StreamDone(me, Raise("RuntimeError"))
                                    ELSE [me EXCEPT !.attempts = @ + 1]
                               ELSE StreamDone(me, o)
                   /\ UNCHANGED <<uStats, uNextId, uReturned, aPrev>>
              ELSE IF o.v \in {200, 206}
                   THEN /\ aCall' = StreamDone(me, Ret("bytes"))
                        /\ uStats' = first.stats
                        /\ uNextId' = first.next_id
                        /\ uReturned' = uReturned + 1
                        /\ aPrev' = <<[read |-> first.read, saved |-> first.saved, now |-> uNow]>>
                   ELSE IF raise_for_status(o.v).k = "raise"
                        THEN /\ aCall' = StreamDone(me, raise_for_status(o.v))
                             /\ uStats' = first.stats
                             /\ uNextId' = first.next_id
                             /\ uReturned' = uReturned + 1
                             /\ aPrev' = <<[read |-> first.read, saved |-> first.saved,
                                            now |-> uNow]>>
                        ELSE /\ aCall' = StreamDone(me, Ret("bytes"))
                             /\ uStats' = second.stats
                             /\ uNextId' = second.next_id
                             /\ uReturned' = uReturned + 2
                             /\ aPrev' = <<[read |-> second.read, saved |-> second.saved,
                                            now |-> uNow]>>
    /\ UNCHANGED <<uNow, uTicks, uStarted>>
    /\ SendFrame

RetryNext ==
    \/ SendBegin
    \/ SendRequest
    \/ SendRetry
    \/ SendUpdate
    \/ StreamBegin
    \/ StreamRequest

SpecRetry == RetryInit /\ [][RetryNext]_vars

\* The call in progress, or the one that ended last, is of stream_to_bytes
IsStreamCall == "max_attempts" \in DOMAIN aCall

\* The exchanges of the call that ended with a caught exception
TransientErrors == {i \in DOMAIN aCall.tried :
                       aCall.tried[i].k = "raise" /\ aCall.tried[i].exc \in StreamTransient}

\* The bounds of send_request: two requests, the second only after a timeout
\* of the first; an exception of the last request is what the call raises
SendRequestBounded ==
    LET n == Len(aCall.tried)
    IN  /\ n <= 2
        /\ aCall.pc = "request" => n = 0
        /\ aCall.pc = "retry" => n = 1
        /\ n = 2 => aCall.tried[1] = Raise("Timeout")
        /\ (aCall.pc = "idle" /\ n > 0 /\ aCall.tried[n].k = "raise")
              => aCall.out = <<aCall.tried[n]>>

\* The bounds of stream_to_bytes: max_attempts requests, and RuntimeError
\* once max_attempts of them have ended with a caught exception
StreamBounded ==
    LET n == Len(aCall.tried)
    IN  /\ n <= aCall.max_attempts
        /\ aCall.pc = "stream" => (n = aCall.attempts /\ aCall.attempts < aCall.max_attempts)
        /\ aCall.pc = "idle" =>
              /\ aCall.out # <<>>
              /\ (aCall.out = <<Raise("RuntimeError")>>)
                    <=> (Cardinality(TransientErrors) = aCall.max_attempts)
              /\ (n > 0 /\ aCall.tried[n].k = "raise" /\ aCall.tried[n].exc \notin StreamTransient)
                    => aCall.out = <<aCall.tried[n]>>

(* C37: transient I/O retries are bounded and exhaustion surfaces as a
   failure: a call of send_request issues at most 2 HTTP requests, the second
   only after a timeout of the first, and raises the error of a failed
   retry; a call of stream_to_bytes issues at most max_attempts requests and
   raises once max_attempts of them have failed with a transient error;
   every request of a call is one of a bounded number, so neither call
   loops for ever. *)
C37_RetriesAreBounded ==
    comp = "retry" => IF IsStreamCall THEN StreamBounded ELSE SendRequestBounded

\* stream_to_bytes has given up after MaxStreamAttempts requests that all
\* failed with a caught exception
C37_Witness ==
    /\ comp = "retry" /\ IsStreamCall
    /\ aCall.pc = "idle"
    /\ aCall.max_attempts = MaxStreamAttempts
    /\ Len(aCall.tried) = MaxStreamAttempts
    /\ Cardinality(TransientErrors) = MaxStreamAttempts
    /\ aCall.out = <<Raise("RuntimeError")>>

\* send_request has raised the exception of its one retry
SendRetryFailed ==
    /\ comp = "retry" /\ ~IsStreamCall
    /\ aCall.pc = "idle"
    /\ aCall.tried = <<Raise("Timeout"), Raise("Timeout")>>
    /\ aCall.out = <<Raise("Timeout")>>

(***************************************************************************)
(* missing_date_ranges, the second pass iteration by iteration, for every  *)
(* integer max_days_in_range                                               *)
(***************************************************************************)
\* Bounds of the inputs drawn, and of the iterations followed
MaxSliceDay == 4
MaxSliceSteps == 8

SliceBounds == {<<>>} \cup {<<d * SecondsPerDay + Midnight>> : d \in 0 .. MaxSliceDay}
SliceRows == {d * SecondsPerDay + Noon : d \in 0 .. MaxSliceDay}

\* The body of the inner while loop: the sub-range appended and the next
\* sub_start
SliceBody(sub_start, end_date, span) ==
    LET sub_end == Min(sub_start + span, end_date)
    IN  [range |-> <<sub_start, sub_end>>, sub_start |-> sub_end + 1]

SliceReturned(clipped) == [pc |-> "returned", clipped |-> clipped]

SliceInit ==
    /\ comp = "slice"
    /\ gIn \in [qs : SUBSET SliceRows, start_dt : SliceBounds, end_dt : SliceBounds,
                max_days : (-1 .. MaxGapSpan) \cup {DefaultMaxDays}]
    /\ gOut = <<>>
    /\ SchedIdle /\ CapIdle /\ UsageIdle /\ IngestIdle /\ DispIdle /\ SendIdle

SliceFrame ==
    UNCHANGED <<comp, gIn, schedVars, capVars, usageVars, ingestVars, dispVars, sendVars>>

\* The call up to the head of the for loop: the early returns, the first
\* pass, span, and sub_start = start_date of the first run
SliceEnter ==
    /\ comp = "slice"
    /\ gOut = <<>>
    /\ gOut' =
          IF gIn.start_dt = <<>> \/ gIn.end_dt = <<>>
          THEN <<SliceReturned(<<>>)>>
          ELSE LET present == PresentDates(gIn.qs, gIn.start_dt[1], gIn.end_dt[1])
                   ranges == CollectRuns(WalkStart(gIn.start_dt[1]), DateOf(gIn.end_dt[1]),
                                         present, <<>>, <<>>, <<>>)
               IN  IF ranges = <<>>
                   THEN <<SliceReturned(<<>>)>>
                   ELSE <<[pc |-> "while", ranges |-> ranges, i |-> 1,
                           span |-> SliceSpan(gIn.max_days),
                           sub_start |-> ranges[1][1], clipped |-> <<>>]>>
    /\ SliceFrame

\* One iteration of the inner while loop (its test holds when a run is
\* entered, a run being non-empty), then the test again: the same run goes
\* on, the for loop takes the next run, or the function returns. The
\* iterations are followed up to MaxSliceSteps sub-ranges.
SliceIterate ==
    /\ comp = "slice"
    /\ gOut # <<>>
    /\ gOut[1].pc = "while"
    /\ Len(gOut[1].clipped) < MaxSliceSteps
    /\ LET me == gOut[1]
           end_date == me.ranges[me.i][2]
           body == SliceBody(me.sub_start, end_date, me.span)
           clipped == Append(me.clipped, body.range)
       IN  gOut' =
              IF body.sub_start <= end_date
              THEN <<[me EXCEPT !.sub_start = body.sub_start, !.clipped = clipped]>>
              ELSE IF me.i < Len(me.ranges)
                   THEN <<[me EXCEPT !.i = @ + 1, !.sub_start = me.ranges[me.i + 1][1],
                                     !.clipped = clipped]>>
                   ELSE <<SliceReturned(clipped)>>
    /\ SliceFrame

SliceNext ==
    \/ SliceEnter
    \/ SliceIterate

SpecSlice == SliceInit /\ [][SliceNext]_vars

(* C38: missing_date_ranges terminates for every input, start > end, a
   missing bound and every integer max_days_in_range, 0 and negative ones
   included: an iteration of the slicing loop after which the loop goes on
   in the same run has strictly advanced sub_start. *)
C38_SlicingAdvances ==
    [][(comp = "slice" /\ gOut # <<>> /\ gOut[1].pc = "while"
          /\ gOut'[1].pc = "while" /\ gOut'[1].i = gOut[1].i)
        => gOut'[1].sub_start > gOut[1].sub_start]_vars

\* With max_days_in_range >= 1 the iterations advance and the call returns
\* what missing_date_ranges gives
SlicingAdvancesFromOne ==
    [][(comp = "slice" /\ gOut # <<>> /\ gOut[1].pc = "while" /\ gIn.max_days >= 1)
        => /\ gOut'[1].pc = "while" => (gOut'[1].i > gOut[1].i
                                          \/ gOut'[1].sub_start > gOut[1].sub_start)
           /\ gOut'[1].pc = "returned" =>
                 gOut'[1].clipped = missing_date_ranges(gIn.qs, gIn.start_dt, gIn.end_dt,
                                                        gIn.max_days)]_vars

\* The loop has made more sub-ranges than the interval has dates
SliceRunsOn ==
    /\ comp = "slice" /\ gOut # <<>> /\ gOut[1].pc = "while"
    /\ Len(gOut[1].clipped) = MaxSliceSteps

(* C39: the capacity read and the usage update agree on window expiry: for
   every usage document the updates have produced and every now, the count
   an update at now writes for a sliding window is the effective count
   window_count reads for the stored window at now, plus one. *)
C39_ReadAndUpdateAgreeOnExpiry ==
    (comp = "send" /\ aPrev # <<>>) =>
        /\ PrevSaved.per_minute[1].count
              = window_count(PrevRead.per_minute, aPrev[1].now, PerMinuteSeconds) + 1
        /\ PrevSaved.per_hour[1].count
              = window_count(PrevRead.per_hour, aPrev[1].now, PerHourSeconds) + 1

\* An update exactly 60 s after the update that started the per_minute
\* window: the read gives 0 and the update writes 1, and the per_hour window
\* goes on to 2
C39_Witness ==
    /\ comp = "send" /\ aPrev # <<>>
    /\ PrevRead.per_minute # <<>>
    /\ aPrev[1].now - WindowStart(PrevRead.per_minute[1]) = PerMinuteSeconds
    /\ PrevRead.per_minute[1].count >= 1
    /\ window_count(PrevRead.per_minute, aPrev[1].now, PerMinuteSeconds) = 0
    /\ PrevSaved.per_minute[1].count = 1
    /\ PrevSaved.per_hour[1].count = 2

====
